---------------------------- MODULE Spec2Model ----------------------------
(***************************************************************************)
(* A model of keymaster: the secure key store (security.py) over the OS    *)
(* credential store and the metadata database, the rotation subsystem      *)
(* (rotation.py) with its history ledger, and the backup manager           *)
(* (backup.py).                                                            *)
(*                                                                         *)
(* Names are sequences of one-character strings, so that str.lower() and   *)
(* the f-string concatenations of the source are computed, not assumed.    *)
(***************************************************************************)
EXTENDS Integers, Sequences, FiniteSets, TLC

VARIABLES
    keyring,    \* the OS credential store: <<service, username>> -> password
    db,         \* the metadata database: primary key -> row
    ledger,     \* rotation_history.json: "service:environment" -> history
    recorded,   \* history variable: every attempt written to the ledger, per key
    files,      \* the backup archives on disk: path -> file content
    auditLog,   \* audit.log: its lines, oldest first
    clock,      \* the time, in ticks
    secure,     \* a SecureString object: its _value and _cleared
    procs,      \* concurrent CLI processes: the call each is in, and where
    sync,       \* the sync tables of the database: devices, sync_metadata, sync_state
    last        \* the latest call: its arguments and its outcome

vars == <<keyring, db, ledger, recorded, files, auditLog, clock, secure, procs, sync, last>>

---------------------------------------------------------------------------
(* Strings *)

UpperChars == <<"A","B","C","D","E","F","G","H","I","J","K","L","M",
                "N","O","P","Q","R","S","T","U","V","W","X","Y","Z">>

LowerChars == <<"a","b","c","d","e","f","g","h","i","j","k","l","m",
                "n","o","p","q","r","s","t","u","v","w","x","y","z">>

\* the lower-case letter of each upper-case letter
LowerOf ==
    [c \in {UpperChars[i] : i \in DOMAIN UpperChars} |->
        LowerChars[CHOOSE i \in DOMAIN UpperChars : UpperChars[i] = c]]

\* str.lower() on one character
LowerChar(c) == IF c \in DOMAIN LowerOf THEN LowerOf[c] ELSE c

\* str.lower()
Lower(s) == [i \in DOMAIN s |-> LowerChar(s[i])]

\* Python's None, where a string value is expected
None == "<None>"

\* service=None (or the empty string: both are falsy)
NoService == <<>>

\* os.getlogin() / os.getenv("USER", "unknown")
User == "user"

---------------------------------------------------------------------------
(* Provider registry (providers.py) *)

OpenAI    == <<"O","p","e","n","A","I">>
Anthropic == <<"A","n","t","h","r","o","p","i","c">>
Stability == <<"S","t","a","b","i","l","i","t","y">>
DeepSeek  == <<"D","e","e","p","S","e","e","k">>

\* the service_name of every provider class
ProviderNames == {OpenAI, Anthropic, Stability, DeepSeek}

\* get_providers(): lowercase service name -> provider
get_providers == [n \in {Lower(p) : p \in ProviderNames} |->
                    CHOOSE p \in ProviderNames : Lower(p) = n]

\* get_provider_by_name(name) is not None
HasProvider(name) == Lower(name) \in DOMAIN get_providers

\* get_provider_by_name(name).service_name
get_provider_by_name(name) == get_providers[Lower(name)]

---------------------------------------------------------------------------
(* Metadata database (keymaster.db.KeyDatabase)                            *)
(* rows: primary key <<service_name, environment>> -> row                  *)

DbKey(service, environment) == <<Lower(service), Lower(environment)>>

\* add_key: insert or replace the row of the pair
DbAddKey(d, service_name, environment, keychain_service_name, user) ==
    LET pk  == DbKey(service_name, environment)
        row == [service_name          |-> pk[1],
                environment           |-> pk[2],
                keychain_service_name |-> keychain_service_name,
                updated_by            |-> user]
    IN  [k \in DOMAIN d \cup {pk} |-> IF k = pk THEN row ELSE d[k]]

\* get_key_metadata(...) is not None
DbHasKey(d, service, environment) == DbKey(service, environment) \in DOMAIN d

\* get_key_metadata(...), when present
DbGetKeyMetadata(d, service, environment) == d[DbKey(service, environment)]

\* remove_key: delete the row if present
DbRemoveKey(d, service, environment) ==
    [k \in DOMAIN d \ {DbKey(service, environment)} |-> d[k]]

\* list_keys(filter_service): the primary keys of the rows returned
DbListKeys(d, filter_service) ==
    {k \in DOMAIN d : filter_service = NoService \/ k[1] = Lower(filter_service)}

---------------------------------------------------------------------------
(* OS credential store (the keyring module)                                *)
(* <<service, username>> -> password                                       *)

keyring_set_password(kr, service, username, password) ==
    [k \in DOMAIN kr \cup {<<service, username>>} |->
        IF k = <<service, username>> THEN password ELSE kr[k]]

keyring_get_password(kr, service, username) ==
    IF <<service, username>> \in DOMAIN kr THEN kr[<<service, username>>] ELSE None

\* delete_password raises PasswordDeleteError when there is no such password
keyring_delete_password(kr, service, username) ==
    [k \in DOMAIN kr \ {<<service, username>>} |-> kr[k]]

---------------------------------------------------------------------------
(* KeyStore (security.py)                                                  *)
(* A call works on a record st: the two stores, whether the call raised    *)
(* (and what), its return value, and the store_key invocations so far.     *)
(* fault says where the environment makes the call raise:                  *)
(*   "none", "backend" (_verify_backend), "keyring" (the keyring call),    *)
(*   "db" (the database call, or os.getlogin() before it).                 *)

Faults == {"none", "backend", "keyring", "db"}

KeymasterPrefix == <<"k","e","y","m","a","s","t","e","r","-">>

\* an exception: its class, its operation attribute, and str(e) as the sequence
\* of the parts the message is formatted from
Exception(type, operation, message) ==
    [type |-> type, operation |-> operation, message |-> message]

NoException == Exception("none", "none", <<>>)

RaiseException(st, exception) == [st EXCEPT !.raised = TRUE, !.exc = exception, !.ret = None]

\* an exception of the OS store, the database or the backend check
Raise(st, type, operation) ==
    RaiseException(st, Exception(type, operation, <<type, operation>>))

Return(st, value) == [st EXCEPT !.raised = FALSE, !.ret = value]

\* one statement after another: value is computed once and handed to rest
Then(value, rest(_)) == CHOOSE after \in {rest(v) : v \in {value}} : TRUE

\* the state a call starts from
Enter(kr, d) ==
    [keyring |-> kr, db |-> d, files |-> files, auditLog |-> auditLog,
     ledger |-> ledger, recorded |-> recorded, now |-> clock,
     raised |-> FALSE, exc |-> NoException, ret |-> None, stored |-> <<>>]

\* _get_keyring_service_name
get_keyring_service_name(service, environment) == KeymasterPrefix \o Lower(service)

\* store_key with the OS-store username left in the caller's letter case
store_key_raw_username(st, service, environment, api_key, fault) ==
    LET s0 == [st EXCEPT !.stored = Append(@, <<service, environment, api_key>>)]
        service_lower   == Lower(service)
        keyring_service == get_keyring_service_name(service_lower, environment)
        kr2 == keyring_set_password(s0.keyring, keyring_service, environment, api_key)
    IN  IF fault = "backend" THEN Raise(s0, "KeyringError", "verify_backend")
        ELSE IF fault = "keyring" THEN Raise(s0, "KeyringBackendError", "set_password")
        ELSE IF fault = "db" THEN Raise([s0 EXCEPT !.keyring = kr2], "DatabaseError", "add_key")
        ELSE Return([s0 EXCEPT !.keyring = kr2,
                               !.db = DbAddKey(s0.db, service_lower, environment,
                                               keyring_service, User)], None)

\* KeyStore.store_key
store_key(st, service, environment, api_key, fault) ==
    LET s0 == [st EXCEPT !.stored = Append(@, <<service, environment, api_key>>)]
        service_lower   == Lower(service)
        keyring_service == get_keyring_service_name(service_lower, environment)
        kr2 == keyring_set_password(s0.keyring, keyring_service,
                                    Lower(environment), api_key)
    IN  IF fault = "backend" THEN Raise(s0, "KeyringError", "verify_backend")
        ELSE IF fault = "keyring" THEN Raise(s0, "KeyringBackendError", "set_password")
        ELSE IF fault = "db" THEN Raise([s0 EXCEPT !.keyring = kr2], "DatabaseError", "add_key")
        ELSE Return([s0 EXCEPT !.keyring = kr2,
                               !.db = DbAddKey(s0.db, service_lower, environment,
                                               keyring_service, User)], None)

\* get_key reading the OS store under the caller's spelling of the environment
get_key_raw_username(st, service, environment, fault) ==
    IF fault = "backend" THEN Raise(st, "KeyringError", "verify_backend")
    ELSE IF fault = "db" THEN Raise(st, "DatabaseError", "get_key_metadata")
    ELSE IF ~DbHasKey(st.db, service, environment) THEN Return(st, None)
    ELSE IF fault = "keyring" THEN Raise(st, "KeyringBackendError", "get_password")
    ELSE Return(st, keyring_get_password(st.keyring,
                    DbGetKeyMetadata(st.db, service, environment).keychain_service_name,
                    environment))

\* get_key that reads the OS store without asking the metadata first
get_key_ignoring_metadata(st, service, environment, fault) ==
    IF fault = "backend" THEN Raise(st, "KeyringError", "verify_backend")
    ELSE IF fault = "db" THEN Raise(st, "DatabaseError", "get_key_metadata")
    ELSE IF fault = "keyring" THEN Raise(st, "KeyringBackendError", "get_password")
    ELSE Return(st, keyring_get_password(st.keyring,
                    get_keyring_service_name(service, environment), Lower(environment)))

\* KeyStore.get_key
get_key(st, service, environment, fault) ==
    IF fault = "backend" THEN Raise(st, "KeyringError", "verify_backend")
    ELSE IF fault = "db" THEN Raise(st, "DatabaseError", "get_key_metadata")
    ELSE IF ~DbHasKey(st.db, service, environment) THEN Return(st, None)
    ELSE IF fault = "keyring" THEN Raise(st, "KeyringBackendError", "get_password")
    ELSE Return(st, keyring_get_password(st.keyring,
                    DbGetKeyMetadata(st.db, service, environment).keychain_service_name,
                    Lower(environment)))

\* remove_key that deletes the secret and leaves the metadata row
remove_key_keeping_metadata(st, service, environment, fault) ==
    IF fault = "backend" THEN Raise(st, "KeyringError", "verify_backend")
    ELSE IF ~DbHasKey(st.db, service, environment) THEN Return(st, None)
    ELSE Return([st EXCEPT !.keyring =
                    keyring_delete_password(st.keyring,
                        DbGetKeyMetadata(st.db, service, environment).keychain_service_name,
                        Lower(environment))], None)

\* KeyStore.remove_key
remove_key(st, service, environment, fault) ==
    IF fault = "backend" THEN Raise(st, "KeyringError", "verify_backend")
    ELSE IF fault = "db" /\ ~DbHasKey(st.db, service, environment)
         THEN Raise(st, "DatabaseError", "get_key_metadata")
    ELSE IF ~DbHasKey(st.db, service, environment) THEN Return(st, None)
    ELSE LET name == DbGetKeyMetadata(st.db, service, environment).keychain_service_name
             username == Lower(environment)
         IN  IF fault = "keyring" THEN Raise(st, "KeyringBackendError", "delete_password")
             ELSE IF <<name, username>> \notin DOMAIN st.keyring
                  \* PasswordDeleteError: caught, logged, nothing else is done
                  THEN Return(st, None)
             ELSE LET s1 == [st EXCEPT !.keyring =
                                keyring_delete_password(st.keyring, name, username)]
                  IN  IF fault = "db" THEN Raise(s1, "DatabaseError", "remove_key")
                      ELSE Return([s1 EXCEPT !.db = DbRemoveKey(s1.db, service, environment)],
                                  None)

\* the (service, environment, updated_by) tuple list_keys returns for a row
NormalizedKey(row) ==
    <<IF HasProvider(row.service_name) THEN get_provider_by_name(row.service_name)
                                       ELSE row.service_name,
      row.environment, row.updated_by>>

\* KeyStore.list_keys: the returned list, indexed by the row it comes from
list_keys(st, service, fault) ==
    IF fault = "backend" THEN Raise(st, "KeyringError", "verify_backend")
    ELSE IF fault \in {"db", "keyring"} THEN Raise(st, "DatabaseError", "list_keys")
    ELSE LET keys == DbListKeys(st.db, service)
             normalized_keys == [k \in keys |-> NormalizedKey(st.db[k])]
             kept == {k \in keys : service = NoService \/
                                   Lower(normalized_keys[k][1]) = Lower(service)}
         IN  Return(st, [k \in kept |-> normalized_keys[k]])

---------------------------------------------------------------------------
(* The inputs *)

openai == <<"o","p","e","n","a","i">>
acme   == <<"a","c","m","e">>
prod   == <<"p","r","o","d">>
PROD   == <<"P","R","O","D">>

Services     == {OpenAI, openai, acme}
Environments == {prod, PROD}
ApiKeys      == {"k1", "k2"}

Empty == [k \in {} |-> None]

Idle == [op |-> "init"]

Init ==
    /\ keyring  = Empty
    /\ db       = Empty
    /\ ledger   = Empty
    /\ recorded = Empty
    /\ files    = Empty
    /\ auditLog = <<>>
    /\ clock    = 0
    /\ procs    = None
    /\ sync     = None
    /\ secure   = None
    /\ last     = Idle

\* the OS store holds a secret for the pair
HasSecret(kr, service, environment) ==
    <<get_keyring_service_name(service, environment), Lower(environment)>> \in DOMAIN kr

\* what a KeyStore call leaves in the two stores, and the record of the call
Commit(op, service, environment, api_key, fault, r) ==
    /\ keyring' = r.keyring
    /\ db'      = r.db
    /\ last'    = [op |-> op, service |-> service, environment |-> environment,
                   api_key |-> api_key, fault |-> fault,
                   raised |-> r.raised, exc |-> r.exc, ret |-> r.ret,
                   pre_metadata |-> environment # None /\ DbHasKey(db, service, environment),
                   pre_secret   |-> environment # None /\ HasSecret(keyring, service, environment)]
    /\ UNCHANGED <<sync, procs, secure, ledger, recorded, files, auditLog, clock>>

StoreKey ==
    \E service \in Services, environment \in Environments,
       api_key \in ApiKeys, fault \in Faults :
        Commit("store_key", service, environment, api_key, fault,
               store_key(Enter(keyring, db), service, environment, api_key, fault))

GetKey ==
    \E service \in Services, environment \in Environments, fault \in Faults :
        Commit("get_key", service, environment, None, fault,
               get_key(Enter(keyring, db), service, environment, fault))

RemoveKey ==
    \E service \in Services, environment \in Environments, fault \in Faults :
        Commit("remove_key", service, environment, None, fault,
               remove_key(Enter(keyring, db), service, environment, fault))

ListKeys ==
    \E service \in Services \cup {NoService}, fault \in Faults :
        Commit("list_keys", service, None, None, fault,
               list_keys(Enter(keyring, db), service, fault))

Next == StoreKey \/ GetKey \/ RemoveKey \/ ListKeys

Spec == Init /\ [][Next]_vars

---------------------------------------------------------------------------
(* Claims about the key store, checked under Spec *)

\* get_key(service, environment) in the current state, when nothing fails
GetNow(service, environment) ==
    get_key(Enter(keyring, db), service, environment, "none").ret

\* list_keys() in the current state, when nothing fails
ListNow == list_keys(Enter(keyring, db), NoService, "none").ret

\* the entries of list_keys() that stand for the pair: the service under its
\* canonical name or as stored, the environment as stored
EntriesFor(service, environment) ==
    {k \in DOMAIN ListNow : /\ Lower(ListNow[k][1]) = Lower(service)
                            /\ Lower(ListNow[k][2]) = Lower(environment)}

StoreReturned == last.op = "store_key" /\ ~last.raised

\* C1: from any reachable state of the two stores, once store_key(s, e, v) has
\* returned, get_key(s, e) returns v and list_keys() holds exactly one entry
\* for the pair (s, e).
C1_StoreGetRoundTrip ==
    StoreReturned =>
        /\ GetNow(last.service, last.environment) = last.api_key
        /\ Cardinality(EntriesFor(last.service, last.environment)) = 1

\* a store_key over a pair whose metadata row existed while its secret was
\* missing, spelled in another letter case than the store keeps
C1_Witness ==
    /\ StoreReturned
    /\ last.pre_metadata /\ ~last.pre_secret
    /\ last.service = openai /\ last.environment = PROD
    /\ Cardinality(DOMAIN ListNow) = 2

\* C18: metadata is authoritative for existence. In every reachable state
\* get_key returns no value for a pair without a metadata row, also when the
\* OS store holds a secret under "keymaster-" + lower(service) and
\* lower(environment).
C18_MetadataAuthoritative ==
    /\ \A service \in Services, environment \in Environments :
          ~DbHasKey(db, service, environment) => GetNow(service, environment) = None
    /\ last.op = "get_key" /\ last.fault = "none" /\ ~last.pre_metadata
          => ~last.raised /\ last.ret = None

\* get_key has been called for a pair whose secret is in the OS store while
\* its metadata row is missing
C18_Witness ==
    /\ last.op = "get_key" /\ last.fault = "none"
    /\ ~last.pre_metadata /\ last.pre_secret
    /\ last.ret = None
    /\ HasSecret(keyring, last.service, last.environment)

\* C2: remove_key on a pair that has a metadata row but no secret in the OS
\* store does not raise and leaves the pair without a metadata row.
C2_RemoveKeyMissingSecret ==
    (/\ last.op = "remove_key" /\ last.fault = "none"
     /\ last.pre_metadata /\ ~last.pre_secret)
    => (~last.raised /\ ~DbHasKey(db, last.service, last.environment))

\* C3: once store_key has returned, get_key under every spelling of the same
\* service and environment that differs only in letter case returns the value.
C3_CaseInsensitive ==
    StoreReturned =>
        \A service \in Services, environment \in Environments :
            (/\ Lower(service) = Lower(last.service)
             /\ Lower(environment) = Lower(last.environment))
            => GetNow(service, environment) = last.api_key

\* store_key("OpenAI", "PROD", x), read back as get_key("openai", "prod")
C3_Witness ==
    /\ StoreReturned
    /\ last.service = OpenAI /\ last.environment = PROD
    /\ GetNow(openai, prod) = last.api_key

---------------------------------------------------------------------------
(* KeyRotationHistory (rotation.py) *)

\* the last n elements of a sequence: seq[-n:]
LastN(seq, n) ==
    IF Len(seq) <= n THEN seq ELSE SubSeq(seq, Len(seq) - n + 1, Len(seq))

\* the first n elements of a sequence: seq[:n]
FirstN(seq, n) == IF Len(seq) <= n THEN seq ELSE SubSeq(seq, 1, n)

\* rotations[-10:]
HistoryLimit == 10

\* f"{service}:{environment}"
HistoryKey(service, environment) == service \o <<":">> \o environment

\* the entry record_rotation appends
rotation_record(now, success, backup_path, error_message) ==
    [timestamp |-> now, success |-> success, user |-> User,
     backup_path |-> backup_path, error_message |-> error_message]

\* record_rotation keeping the oldest ten entries
record_rotation_keep_oldest(history, service, environment, success, backup_path, error_message, now) ==
    LET key == HistoryKey(service, environment)
        old == IF key \in DOMAIN history THEN history[key] ELSE [rotations |-> <<>>]
        rec == rotation_record(now, success, backup_path, error_message)
        trimmed == [rotations |-> FirstN(Append(old.rotations, rec), HistoryLimit)]
        kept == IF "last_successful_rotation" \in DOMAIN old
                THEN trimmed @@
                     [last_successful_rotation |-> old.last_successful_rotation]
                ELSE trimmed
        new == IF success
               THEN trimmed @@ [last_successful_rotation |-> rec.timestamp]
               ELSE kept
    IN  [k \in DOMAIN history \cup {key} |-> IF k = key THEN new ELSE history[k]]

\* record_rotation stamping last_successful_rotation on every attempt
record_rotation_any_attempt(history, service, environment, success, backup_path, error_message, now) ==
    LET key == HistoryKey(service, environment)
        old == IF key \in DOMAIN history THEN history[key] ELSE [rotations |-> <<>>]
        rec == rotation_record(now, success, backup_path, error_message)
        trimmed == [rotations |-> LastN(Append(old.rotations, rec), HistoryLimit)]
        new == trimmed @@ [last_successful_rotation |-> rec.timestamp]
    IN  [k \in DOMAIN history \cup {key} |-> IF k = key THEN new ELSE history[k]]

\* KeyRotationHistory.record_rotation: the history written back
record_rotation(history, service, environment, success, backup_path, error_message, now) ==
    LET key == HistoryKey(service, environment)
        old == IF key \in DOMAIN history THEN history[key] ELSE [rotations |-> <<>>]
        rec == rotation_record(now, success, backup_path, error_message)
        trimmed == [rotations |-> LastN(Append(old.rotations, rec), HistoryLimit)]
        kept == IF "last_successful_rotation" \in DOMAIN old
                THEN trimmed @@
                     [last_successful_rotation |-> old.last_successful_rotation]
                ELSE trimmed
        new == IF success
               THEN trimmed @@ [last_successful_rotation |-> rec.timestamp]
               ELSE kept
    IN  [k \in DOMAIN history \cup {key} |-> IF k = key THEN new ELSE history[k]]

\* KeyRotationHistory.get_rotation_history
get_rotation_history(history, service, environment) ==
    LET key == HistoryKey(service, environment)
    IN  IF key \in DOMAIN history THEN history[key].rotations ELSE <<>>

\* the history variable after an attempt has been written under key
Recorded(rec_, key, entry) ==
    [k \in DOMAIN rec_ \cup {key} |->
        IF k = key THEN Append(IF key \in DOMAIN rec_ THEN rec_[key] ELSE <<>>, entry)
        ELSE rec_[k]]

\* the most record_rotation calls of a run, and the most of them that may go
\* to another pair than (openai, prod)
MaxRecords == 12
MaxOtherRecords == 1

BackupPath == "pre_rotation.kmbackup"
ErrorMessage == "Key validation failed"

OtherRecords ==
    LET other == DOMAIN recorded \ {HistoryKey(openai, prod)}
    IN  IF other = {} THEN 0 ELSE Len(recorded[CHOOSE k \in other : TRUE])

RecordRotation ==
    \E service \in {openai}, environment \in {prod, PROD}, success \in BOOLEAN :
        LET backup_path   == IF success THEN BackupPath ELSE None
            error_message == IF success THEN None ELSE ErrorMessage
        IN  /\ clock < MaxRecords
            /\ environment = PROD => OtherRecords < MaxOtherRecords
            /\ ledger' = record_rotation(ledger, service, environment, success,
                                         backup_path, error_message, clock)
            /\ recorded' = Recorded(recorded, HistoryKey(service, environment),
                               rotation_record(clock, success, backup_path, error_message))
            /\ clock' = clock + 1
            /\ last' = [op |-> "record_rotation", service |-> service,
                        environment |-> environment, success |-> success]
            /\ UNCHANGED <<sync, procs, secure, keyring, db, files, auditLog>>

NextLedger == RecordRotation

SpecLedger == Init /\ [][NextLedger]_vars

---------------------------------------------------------------------------
(* Claims about the history ledger, checked under SpecLedger *)

\* the pairs record_rotation is called with
LedgerPairs == {<<openai, prod>>, <<openai, PROD>>}

\* the timestamp of the latest successful attempt of a sequence of attempts
LatestSuccess(attempts) ==
    attempts[CHOOSE i \in DOMAIN attempts :
                /\ attempts[i].success
                /\ \A j \in DOMAIN attempts : j > i => ~attempts[j].success].timestamp

---------------------------------------------------------------------------
(* AuditLogger: the log file and its lines (audit.py) *)

\* environment=None (or the empty string)
NoEnvironment == <<>>

\* Fernet(key).encrypt(data): a token only the same key opens
fernet_encrypt(key, data) == [fernet |-> key, plaintext |-> data]

\* Fernet(key).decrypt(token) does not raise InvalidToken
fernet_decrypts(key, token) == token.fernet = key

AuditError(operation, message) == Exception("AuditError", operation, message)

\* json.dump(event, f) and the newline: one line of audit.log
json_dumps(event) == [json |-> event]

\* a line that is no JSON document, and a line of white space
Malformed == [text |-> "invalid json line"]
Blank     == [text |-> ""]

\* line.strip() is empty
is_blank(line) == "text" \in DOMAIN line /\ line.text = ""

\* json.loads(line) does not raise JSONDecodeError
json_decodes(line) == "json" \in DOMAIN line

\* json.loads(line)
json_loads(line) == line.json

\* sensitive_data=None, and the encrypted_data of an event without any
NoData == <<>>

\* the event log_event builds. An optional field that is not given is absent
\* from the JSON object: NoService, NoEnvironment, NoData stand for absent
audit_event(now, event_type, service, environment, sensitive_data, fernet) ==
    [timestamp |-> now, event_type |-> event_type, user |-> User,
     service |-> service, environment |-> environment,
     encrypted_data |-> IF sensitive_data = NoData THEN NoData
                        ELSE <<fernet_encrypt(fernet, sensitive_data)>>]

\* the event with additional_data, if any is given, as its metadata
with_metadata(event, additional_data) ==
    IF DOMAIN additional_data = {} THEN event
    ELSE event @@ [metadata |-> additional_data]

\* AuditLogger.log_event. auditLog holds the lines of audit.log, a missing
\* file being one without lines; fernet: the key of the logger; ok: the event
\* could be encrypted and the line appended
log_event_full(st, event_type, service, environment, sensitive_data, additional_data, fernet, ok) ==
    IF ok
    THEN Return([st EXCEPT !.auditLog =
                    Append(@, json_dumps(with_metadata(
                                  audit_event(st.now, event_type, service, environment,
                                              sensitive_data, fernet),
                                  additional_data)))],
                None)
    ELSE RaiseException(st, AuditError("log_event",
                                       <<"Failed to log audit event: ", "OSError">>))

\* AuditLogger.log_event without additional_data
log_event_sensitive(st, event_type, service, environment, sensitive_data, fernet, ok) ==
    log_event_full(st, event_type, service, environment, sensitive_data, NoData, fernet, ok)

\* AuditLogger.log_event without sensitive_data
log_event(st, event_type, service, environment, ok) ==
    log_event_sensitive(st, event_type, service, environment, NoData, None, ok)

\* start_date=None, end_date=None, event_type=None
NoDate == -1
NoType == ""

\* get_events() without filters
NoFilters ==
    [start_date |-> NoDate, end_date |-> NoDate, event_type |-> NoType,
     service |-> NoService, environment |-> NoEnvironment, decrypt |-> FALSE]

\* the filters of get_events let the event through
passes_filters(event, q) ==
    /\ ~(q.start_date # NoDate /\ event.timestamp < q.start_date)
    /\ ~(q.end_date # NoDate /\ event.timestamp > q.end_date)
    /\ ~(q.event_type # NoType /\ event.event_type # q.event_type)
    /\ ~(q.service # NoService /\ event.service # q.service)
    /\ ~(q.environment # NoEnvironment /\ event.environment # q.environment)

\* the event as get_events returns it: with decrypt, decrypted_data or
\* decryption_error is added to an event that carries encrypted_data
decrypted_event(event, q, fernet) ==
    IF q.decrypt /\ event.encrypted_data # NoData
    THEN IF fernet_decrypts(fernet, event.encrypted_data[1])
         THEN event @@ [decrypted_data |-> event.encrypted_data[1].plaintext]
         ELSE event @@ [decryption_error |-> "Failed to decrypt sensitive data"]
    ELSE event

\* the loop of get_events from the i-th line on: the events appended
RECURSIVE read_events(_, _, _, _)
read_events(lines, i, q, fernet) ==
    IF i > Len(lines) THEN <<>>
    ELSE IF is_blank(lines[i]) THEN read_events(lines, i + 1, q, fernet)
    ELSE IF ~json_decodes(lines[i]) THEN read_events(lines, i + 1, q, fernet)
    ELSE IF ~passes_filters(json_loads(lines[i]), q)
    THEN read_events(lines, i + 1, q, fernet)
    ELSE <<decrypted_event(json_loads(lines[i]), q, fernet)>>
         \o read_events(lines, i + 1, q, fernet)

\* get_events that gives up at the first line that is no JSON
get_events_strict(st, q, fernet, readable) ==
    IF ~readable \/ \E i \in DOMAIN st.auditLog :
                        ~is_blank(st.auditLog[i]) /\ ~json_decodes(st.auditLog[i])
    THEN RaiseException(st, AuditError("get_events",
                                       <<"Failed to retrieve audit events: ", "OSError">>))
    ELSE Return(st, read_events(st.auditLog, 1, q, fernet))

\* AuditLogger.get_events. readable: the file can be opened and read
get_events(st, q, fernet, readable) ==
    IF st.auditLog = <<>> THEN Return(st, <<>>)
    ELSE IF ~readable
    THEN RaiseException(st, AuditError("get_events",
                                       <<"Failed to retrieve audit events: ", "OSError">>))
    ELSE Return(st, read_events(st.auditLog, 1, q, fernet))

\* AuditLogger.clear_events. writable: the file can be opened for writing
clear_events(st, confirm, writable) ==
    IF ~confirm
    THEN RaiseException(st, AuditError("clear_events",
                                       <<"Must confirm clearing of audit events">>))
    ELSE IF ~writable
    THEN RaiseException(st, AuditError("clear_events",
                                       <<"Failed to clear audit events: ", "OSError">>))
    ELSE Return([st EXCEPT !.auditLog = <<>>], None)

\* json.dump(events, f, indent=2, default=str): the exported file
json_dump_events(events) == [json_array |-> events]

\* AuditLogger.export_events. writable: output_path can be written
export_events(st, output_path, decrypt, fernet, readable, writable) ==
    Then(get_events(st, [NoFilters EXCEPT !.decrypt = decrypt], fernet, readable),
         LAMBDA got :
            IF got.raised \/ ~writable
            THEN RaiseException(got, AuditError("export_events",
                     <<"Failed to export audit events: ", "OSError">>))
            ELSE Return([got EXCEPT !.files =
                            [f \in DOMAIN got.files \cup {output_path} |->
                                IF f = output_path THEN json_dump_events(got.ret)
                                ELSE got.files[f]]], None))

---------------------------------------------------------------------------
(* ConfigManager (config.py): the settings file *)

ConfigPath == "~/keymaster.yaml"

\* {}
EmptyConfig == [k \in {} |-> None]

\* yaml.safe_dump(data, f): the content of the settings file
yaml_safe_dump(data) == [yaml |-> data]

\* ConfigManager.load_config: {} when the file is absent, is no YAML or is empty
load_config(fs) ==
    IF ConfigPath \notin DOMAIN fs THEN EmptyConfig
    ELSE IF "yaml" \in DOMAIN fs[ConfigPath] THEN fs[ConfigPath].yaml
    ELSE EmptyConfig

\* ConfigManager.write_config: the whole file is replaced; a failure to open or
\* write it is logged and not raised
write_config(st, data, writable) ==
    IF writable
    THEN [st EXCEPT !.files = [f \in DOMAIN st.files \cup {ConfigPath} |->
                                  IF f = ConfigPath THEN yaml_safe_dump(data)
                                  ELSE st.files[f]]]
    ELSE st

\* del mapping[key]
del(mapping, key) == [k \in DOMAIN mapping \ {key} |-> mapping[k]]

---------------------------------------------------------------------------
(* KeyStore system keys (security.py) *)

SystemService   == KeymasterPrefix \o <<"s","y","s","t","e","m">>
AuditEncryption == <<"a","u","d","i","t","_","e","n","c","r","y","p","t","i","o","n">>

SystemFaults == {"none", "backend", "keyring"}

\* KeyStore.get_system_key
get_system_key(st, key_name, fault) ==
    IF fault = "backend" THEN Raise(st, "KeyringError", "verify_backend")
    ELSE IF fault = "keyring"
    THEN RaiseException(st, Exception("StorageError", "get_system_key",
                                      <<"Failed to retrieve system key">>))
    ELSE Return(st, keyring_get_password(st.keyring, SystemService, key_name))

\* KeyStore.store_system_key
store_system_key(st, key_name, key_value, fault) ==
    IF fault = "backend" THEN Raise(st, "KeyringError", "verify_backend")
    ELSE IF fault = "keyring"
    THEN RaiseException(st, Exception("StorageError", "store_system_key",
                                      <<"Failed to store system key">>))
    ELSE Return([st EXCEPT !.keyring = keyring_set_password(@, SystemService,
                                                            key_name, key_value)],
                None)

---------------------------------------------------------------------------
(* AuditLogger: construction and the encryption key (audit.py) *)
(* f, the faults of one construction: get, store_migrated, store_fresh in  *)
(* SystemFaults; writable: the settings file can be written; creatable:    *)
(* the log file can be created                                             *)

\* the settings hold the legacy audit.encryption_key entry
has_legacy_key(config) ==
    "audit" \in DOMAIN config /\ "encryption_key" \in DOMAIN config.audit

\* the settings without the entry, and without an audit section left empty
strip_legacy_key(config) ==
    IF DOMAIN config.audit = {"encryption_key"} THEN del(config, "audit")
    ELSE [config EXCEPT !.audit = del(@, "encryption_key")]

\* AuditLogger._migrate_key_from_config: whatever fails inside is logged as
\* a warning and None is returned
migrate_key_from_config(st, f) ==
    IF has_legacy_key(load_config(st.files))
    THEN Then(store_system_key(st, AuditEncryption,
                               load_config(st.files).audit.encryption_key,
                               f.store_migrated),
              LAMBDA s :
                 IF s.raised THEN Return(s, None)
                 ELSE Return(write_config(s, strip_legacy_key(load_config(st.files)),
                                          f.writable),
                             load_config(st.files).audit.encryption_key))
    ELSE Return(st, None)

\* the AuditError of _get_encryption_key, wrapping e
get_encryption_key_error(e) ==
    AuditError("get_encryption_key", <<"Failed to get audit encryption key: ">> \o e.message)

\* AuditLogger._get_encryption_key. new_key: what Fernet.generate_key() gives
get_encryption_key(st, new_key, f) ==
    Then(get_system_key(st, AuditEncryption, f.get), LAMBDA g :
        IF g.raised THEN RaiseException(g, get_encryption_key_error(g.exc))
        ELSE IF g.ret # None THEN g
        ELSE Then(migrate_key_from_config(g, f), LAMBDA m :
            IF m.ret # None THEN m
            ELSE Then(store_system_key(m, AuditEncryption, new_key, f.store_fresh),
                      LAMBDA s :
                IF s.raised THEN RaiseException(s, get_encryption_key_error(s.exc))
                ELSE Return(s, new_key))))

\* _ensure_log_file that starts the log file afresh
ensure_log_file_truncating(st, creatable) ==
    IF ~creatable
    THEN RaiseException(st, AuditError("ensure_log_file",
                                       <<"Failed to create audit log file: ", "OSError">>))
    ELSE Return([st EXCEPT !.auditLog = <<>>], None)

\* AuditLogger._ensure_log_file: a missing file is created empty, an existing
\* one only has its permissions set. A log without lines stands for both the
\* empty and the missing file, so only that one can fail to be created
ensure_log_file(st, creatable) ==
    IF st.auditLog = <<>> /\ ~creatable
    THEN RaiseException(st, AuditError("ensure_log_file",
                                       <<"Failed to create audit log file: ", "OSError">>))
    ELSE Return(st, None)

\* AuditLogger.__init__; returns the key of the new logger's Fernet
AuditLogger(st, new_key, f) ==
    Then(get_encryption_key(st, new_key, f), LAMBDA k :
        IF k.raised THEN k
        ELSE Then(ensure_log_file(k, f.creatable), LAMBDA e :
            IF e.raised THEN e ELSE Return(e, k.ret)))

---------------------------------------------------------------------------
(* The audit log and its key over the life of an installation *)

MaxLines == 3
MaxEvents == 3

ExportPath == "export.json"
FreshKey   == "fk1"

\* the sensitive_data of a call that passes some: the items of the dict
SensitiveData == <<"secret">>

\* no fault in the key sequence
NoKeyFaults ==
    [get |-> "none", store_migrated |-> "none", store_fresh |-> "none", writable |-> TRUE]

\* what the commands log: event type, service, environment, sensitive_data
Logged ==
    { <<"add_key", openai, prod, SensitiveData>>,
      <<"init", NoService, NoEnvironment, NoData>> }

Queries ==
    { NoFilters, [NoFilters EXCEPT !.decrypt = TRUE],
      [NoFilters EXCEPT !.event_type = "add_key", !.start_date = 1] }

\* the audit encryption key the OS store holds, or None
SystemKey(kr) == keyring_get_password(kr, SystemService, AuditEncryption)

\* a new installation
InitAudit ==
    /\ keyring = Empty
    /\ db = Empty
    /\ ledger = Empty
    /\ recorded = Empty
    /\ files = Empty
    /\ auditLog = <<>>
    /\ clock = 0
    /\ procs = None
    /\ sync  = None
    /\ secure = None
    /\ last = [op |-> "none", logged |-> <<>>]

\* a command constructs its AuditLogger; the faults of the key sequence are
\* those of ConstructKey below
ConstructLogger ==
    \E store_fresh \in {"none", "keyring"}, creatable \in BOOLEAN :
        \E r \in {AuditLogger(Enter(keyring, db), FreshKey,
                              [NoKeyFaults EXCEPT !.store_fresh = store_fresh]
                                  @@ [creatable |-> creatable])} :
            /\ keyring' = r.keyring
            /\ files' = r.files
            /\ auditLog' = r.auditLog
            /\ last' = [op |-> "construct", raised |-> r.raised, exc |-> r.exc,
                        ret |-> r.ret, logged |-> last.logged]
            /\ UNCHANGED <<sync, procs, secure, db, ledger, recorded, clock>>

\* The calls below are made on a constructed logger. A construction succeeds
\* only with its key in the OS store, where nothing replaces it afterwards,
\* so the logger's key is the stored one.
LogEvent ==
    /\ SystemKey(keyring) # None
    /\ Len(auditLog) < MaxLines
    /\ clock < MaxEvents
    /\ \E e \in Logged, ok \in BOOLEAN :
        \E r \in {log_event_sensitive(Enter(keyring, db), e[1], e[2], e[3], e[4],
                                      SystemKey(keyring), ok)} :
            /\ auditLog' = r.auditLog
            /\ clock' = clock + 1
            /\ last' = [op |-> "log_event", raised |-> r.raised, exc |-> r.exc,
                        ret |-> r.ret,
                        logged |-> IF r.raised THEN last.logged
                                   ELSE Append(last.logged,
                                               audit_event(clock, e[1], e[2], e[3], e[4],
                                                           SystemKey(keyring)))]
            /\ UNCHANGED <<sync, procs, secure, keyring, db, ledger, recorded, files>>

\* something else than log_event leaves a line in the file: a write that was
\* cut short, an editor
ForeignLine ==
    /\ Len(auditLog) < MaxLines
    /\ \E line \in {Malformed, Blank} :
        /\ auditLog' = Append(auditLog, line)
        /\ last' = [op |-> "foreign", logged |-> last.logged]
    /\ UNCHANGED <<sync, procs, secure, keyring, db, ledger, recorded, files, clock>>

GetEvents ==
    /\ SystemKey(keyring) # None
    /\ \E q \in Queries, readable \in BOOLEAN :
        \E r \in {get_events(Enter(keyring, db), q, SystemKey(keyring), readable)} :
            /\ auditLog' = r.auditLog
            /\ last' = [op |-> "get_events", raised |-> r.raised, exc |-> r.exc,
                        ret |-> r.ret, q |-> q, readable |-> readable,
                        logged |-> last.logged]
    /\ UNCHANGED <<sync, procs, secure, keyring, db, ledger, recorded, files, clock>>

ExportEvents ==
    /\ SystemKey(keyring) # None
    /\ \E decrypt \in BOOLEAN, readable \in BOOLEAN, writable \in BOOLEAN :
        \E r \in {export_events(Enter(keyring, db), ExportPath, decrypt,
                                SystemKey(keyring), readable, writable)} :
            /\ auditLog' = r.auditLog
            /\ files' = r.files
            /\ last' = [op |-> "export_events", raised |-> r.raised, exc |-> r.exc,
                        ret |-> r.ret, logged |-> last.logged]
    /\ UNCHANGED <<sync, procs, secure, keyring, db, ledger, recorded, clock>>

ClearEvents ==
    /\ SystemKey(keyring) # None
    /\ \E confirm \in BOOLEAN, writable \in BOOLEAN :
        \E r \in {clear_events(Enter(keyring, db), confirm, writable)} :
            /\ auditLog' = r.auditLog
            /\ last' = [op |-> "clear_events", raised |-> r.raised, exc |-> r.exc,
                        ret |-> r.ret, confirm |-> confirm,
                        logged |-> IF r.raised THEN last.logged ELSE <<>>]
    /\ UNCHANGED <<sync, procs, secure, keyring, db, ledger, recorded, files, clock>>

NextAudit ==
    \/ ConstructLogger
    \/ LogEvent
    \/ ForeignLine
    \/ GetEvents
    \/ ExportEvents
    \/ ClearEvents

SpecAudit == InitAudit /\ [][NextAudit]_vars

---------------------------------------------------------------------------
(* Claims about the audit log *)

\* the events of the lines that parse, in file order
EventsOf(lines) ==
    LET parsed == SelectSeq(lines, json_decodes)
    IN  [i \in 1..Len(parsed) |-> json_loads(parsed[i])]

\* get_events() was called without filters on a file that could be read
ReadAll == last.op = "get_events" /\ last.q = NoFilters /\ last.readable

\* C11: whatever mix of event lines and lines that are no JSON the audit log
\* holds, get_events() raises nothing and returns exactly the events of the
\* well-formed lines, in file order.
C11_MalformedLinesSkipped ==
    ReadAll => ~last.raised /\ last.ret = EventsOf(auditLog)

\* get_events() has read a file with a malformed line between two events
C11_Witness ==
    /\ ReadAll
    /\ ~last.raised
    /\ Len(last.ret) = 2
    /\ \E i, j, k \in DOMAIN auditLog :
        /\ i < j /\ j < k
        /\ json_decodes(auditLog[i])
        /\ auditLog[j] = Malformed
        /\ json_decodes(auditLog[k])

\* the lines of before are still there, unchanged, at the head of the file
LinesKept == Len(auditLog') >= Len(auditLog) /\ SubSeq(auditLog', 1, Len(auditLog)) = auditLog

---------------------------------------------------------------------------
(* The audit encryption key: the OS store and the settings file *)

LegacyKey == "legacy"
FreshKeys == {"fk1", "fk2"}

\* the settings of a new installation, and of two older ones that hold the key
InitialSettings ==
    { Empty,
      [f \in {ConfigPath} |-> yaml_safe_dump([audit |-> [encryption_key |-> LegacyKey]])],
      [f \in {ConfigPath} |->
          yaml_safe_dump([log_level |-> "INFO",
                          audit |-> [encryption_key |-> LegacyKey, retention |-> "90"]])] }

ConstructFaults ==
    [get : SystemFaults, store_migrated : SystemFaults, store_fresh : SystemFaults,
     writable : BOOLEAN, creatable : BOOLEAN]

InitAuditKey ==
    /\ keyring = Empty
    /\ db = Empty
    /\ ledger = Empty
    /\ recorded = Empty
    /\ files \in InitialSettings
    /\ auditLog = <<>>
    /\ clock = 0
    /\ procs = None
    /\ sync  = None
    /\ secure = None
    /\ last = [op |-> "none"]

\* a command constructs its AuditLogger
ConstructKey ==
    \E new_key \in FreshKeys, f \in ConstructFaults :
        \E r \in {AuditLogger(Enter(keyring, db), new_key, f)} :
            /\ keyring' = r.keyring
            /\ files' = r.files
            /\ auditLog' = r.auditLog
            /\ last' = [op |-> "construct", raised |-> r.raised, exc |-> r.exc,
                        ret |-> r.ret, f |-> f,
                        pre_key |-> SystemKey(keyring),
                        pre_legacy |-> has_legacy_key(load_config(files))]
            /\ UNCHANGED <<sync, procs, secure, db, ledger, recorded, clock>>

\* config --action reset: ConfigManager.write_config({})
ResetConfig ==
    \E writable \in BOOLEAN :
        /\ files' = write_config(Enter(keyring, db), EmptyConfig, writable).files
        /\ last' = [op |-> "reset"]
        /\ UNCHANGED <<sync, procs, secure, keyring, db, ledger, recorded, auditLog, clock>>

NextAuditKey ==
    \/ ConstructKey
    \/ ResetConfig

SpecAuditKey == InitAuditKey /\ [][NextAuditKey]_vars

---------------------------------------------------------------------------
(* Claims about the audit encryption key *)

Constructed == last.op = "construct" /\ ~last.raised

\* the steps of the key sequence the last construction ran and saw fail
ReadFailed == last.f.get # "none"
MigrationRan == ~ReadFailed /\ last.pre_key = None /\ last.pre_legacy
MigrationFailed == MigrationRan /\ (last.f.store_migrated # "none" \/ ~last.f.writable)
GenerationRan ==
    /\ ~ReadFailed
    /\ last.pre_key = None
    /\ (~last.pre_legacy \/ last.f.store_migrated # "none")
GenerationFailed == GenerationRan /\ last.f.store_fresh # "none"

\* C13: after any successful construction of an AuditLogger the settings file
\* holds no audit.encryption_key entry.
C13_NoKeyInSettings ==
    Constructed => ~has_legacy_key(load_config(files))

---------------------------------------------------------------------------
(* BackupManager (backup.py) *)

BACKUP_VERSION == "1.0"
BACKUP_MAGIC   == "KEYMASTER_BACKUP"

\* audit_events[-1000:]
AuditLogLimit == 1000

BackupError(operation, message) == Exception("BackupError", operation, message)

\* _derive_key_from_password: PBKDF2-HMAC-SHA256 of the password under the fixed salt
derive_key_from_password(password) ==
    <<"PBKDF2HMAC", "keymaster_backup_salt_v1", password>>

\* file bytes that are no Fernet token
Garbage == [fernet |-> <<>>, plaintext |-> <<>>]

\* a set as a list, in some fixed order
RECURSIVE SetToSeq(_)
SetToSeq(S) ==
    IF S = {} THEN <<>>
    ELSE LET x == CHOOSE y \in S : TRUE IN <<x>> \o SetToSeq(S \ {x})

\* _collect_backup_data: the keys of the archive
collect_keys(st, service_filter, environment_filter) ==
    LET stored_keys == list_keys(st, service_filter, "none").ret
        wanted == {k \in DOMAIN stored_keys :
                     /\ service_filter = NoService
                        \/ Lower(stored_keys[k][1]) = Lower(service_filter)
                     /\ environment_filter = NoEnvironment
                        \/ stored_keys[k][2] = environment_filter}
        valued == {k \in wanted :
                     get_key(st, stored_keys[k][1], stored_keys[k][2], "none").ret # None}
    IN  SetToSeq({[service     |-> stored_keys[k][1],
                   environment |-> stored_keys[k][2],
                   key         |-> get_key(st, stored_keys[k][1],
                                           stored_keys[k][2], "none").ret,
                   updated_by  |-> stored_keys[k][3]] : k \in valued})

\* _collect_backup_data
collect_backup_data(st, include_audit_logs, service_filter, environment_filter) ==
    [version    |-> BACKUP_VERSION,
     magic      |-> BACKUP_MAGIC,
     created_at |-> st.now,
     created_by |-> User,
     keys       |-> collect_keys(st, service_filter, environment_filter),
     audit_logs |-> IF include_audit_logs
                    THEN LastN(get_events(st, [NoFilters EXCEPT !.decrypt = TRUE],
                                          SystemKey(st.keyring), TRUE).ret, AuditLogLimit)
                                          ELSE <<>>]

\* create_backup. fault: "none", "collect" (reading the key store or writing
\* the file raises), "audit" (the file is written, log_event raises)
create_backup(st, backup_path, password, include_audit_logs, service_filter, environment_filter, fault) ==
    LET encryption_key == derive_key_from_password(password)
        backup_data == collect_backup_data(st, include_audit_logs,
                                           service_filter, environment_filter)
        written == [st EXCEPT !.files =
                       [f \in DOMAIN st.files \cup {backup_path} |->
                           IF f = backup_path
                           THEN fernet_encrypt(encryption_key, backup_data)
                           ELSE st.files[f]]]
        logged == log_event(written, "backup_created", NoService, NoEnvironment,
                            fault # "audit")
        summary == [keys_count |-> Len(backup_data.keys),
                    audit_logs_count |-> Len(backup_data.audit_logs),
                    created_at |-> backup_data.created_at]
        inner == IF fault = "collect" THEN Raise(st, "KeyringError", "verify_backend")
                 ELSE Then(logged, LAMBDA l : IF l.raised THEN l ELSE Return(l, summary))
    IN  Then(inner, LAMBDA r :
            IF r.raised
            THEN RaiseException(r, BackupError("create",
                     <<"Failed to create backup: ">> \o r.exc.message))
            ELSE r)

\* _validate_backup_data does not raise
backup_data_valid(backup_data) ==
    /\ {"version", "magic", "created_at", "keys"} \subseteq DOMAIN backup_data
    /\ backup_data.magic = BACKUP_MAGIC

\* _analyze_backup_contents
analyze_backup_contents(st, backup_data, fault) ==
    LET listed == list_keys(st, NoService, fault)
        existing_keys == {<<listed.ret[k][1], listed.ret[k][2]>> : k \in DOMAIN listed.ret}
        backup_keys == {<<backup_data.keys[i].service, backup_data.keys[i].environment>> :
                            i \in DOMAIN backup_data.keys}
        conflicts == existing_keys \cap backup_keys
        new_keys  == backup_keys \ existing_keys
    IN  IF listed.raised THEN listed
        ELSE Return(st, [total_keys |-> Len(backup_data.keys),
                         new_keys |-> Cardinality(new_keys),
                         conflicts |-> Cardinality(conflicts),
                         audit_logs_count |-> Len(backup_data.audit_logs),
                         created_at |-> backup_data.created_at,
                         created_by |-> backup_data.created_by,
                         conflicting_keys |-> conflicts,
                         new_keys_list |-> new_keys])

\* what makes the restore of one archived key raise: nothing, get_key,
\* store_key before it writes, store_key between its two writes
KeyFaults == {"none", "get", "store", "store_db"}

\* one turn of the loop of _restore_backup_data: the key store and the
\* counters after key_data
restore_key(loop, key_data, overwrite_existing, fault) ==
    LET st          == loop.st
        summary     == loop.summary
        service     == key_data.service
        environment == key_data.environment
        got == get_key(st, service, environment,
                       IF fault = "get" THEN "backend" ELSE "none")
        put == store_key(st, service, environment, key_data.key,
                         IF fault = "store" THEN "backend"
                         ELSE IF fault = "store_db" THEN "db" ELSE "none")
    IN  IF got.raised
        THEN [st |-> st,
              summary |-> [summary EXCEPT !.errors =
                              Append(@, <<"Failed to restore key">> \o got.exc.message)]]
        ELSE IF got.ret # None /\ ~overwrite_existing
        THEN [st |-> st, summary |-> [summary EXCEPT !.skipped_keys = @ + 1]]
        ELSE IF put.raised
        THEN [st |-> [put EXCEPT !.raised = FALSE, !.exc = NoException],
              summary |-> [summary EXCEPT !.errors =
                              Append(@, <<"Failed to restore key">> \o put.exc.message)]]
        ELSE [st |-> put, summary |-> [summary EXCEPT !.restored_keys = @ + 1]]

\* the loop of _restore_backup_data from the i-th archived key on
RECURSIVE restore_keys(_, _, _, _, _)
restore_keys(loop, keys, i, overwrite_existing, faults) ==
    IF i > Len(keys)
    THEN Return(loop.st, [loop.summary EXCEPT !.total_processed = Len(keys)])
    ELSE Then(restore_key(loop, keys[i], overwrite_existing, faults[i]),
              LAMBDA next : restore_keys(next, keys, i + 1, overwrite_existing, faults))

\* restored_keys = 0, skipped_keys = 0, errors = []
NoSummary == [restored_keys |-> 0, skipped_keys |-> 0, errors |-> <<>>, total_processed |-> 0]

\* _restore_backup_data that stores over the keys the store already holds
restore_backup_data_overwriting(st, backup_data, overwrite_existing, faults) ==
    restore_keys([st |-> st, summary |-> NoSummary], backup_data.keys, 1, TRUE, faults)

\* _restore_backup_data
restore_backup_data(st, backup_data, overwrite_existing, faults) ==
    restore_keys([st |-> st, summary |-> NoSummary], backup_data.keys, 1,
                 overwrite_existing, faults)

\* the statements of restore_backup after the dry-run check: restore, then log
restore_and_log(st, backup_data, overwrite_existing, f) ==
    Then(restore_backup_data(st, backup_data, overwrite_existing, f.keys),
         LAMBDA restored :
            Then(log_event(restored, "backup_restored", NoService, NoEnvironment, f.audit),
                 LAMBDA logged : IF logged.raised THEN logged
                                 ELSE Return(logged, restored.ret)))

\* the except clause of restore_backup
restore_backup_except(inner) ==
    Then(inner, LAMBDA r :
        IF r.raised
        THEN RaiseException(r, BackupError("restore",
                 <<"Failed to restore backup: ">> \o r.exc.message))
        ELSE r)

\* restore_backup that restores whether or not dry_run is set
restore_backup_ignoring_dry_run(st, backup_path, password, dry_run, overwrite_existing, f) ==
    LET fernet == derive_key_from_password(password)
        backup_data == st.files[backup_path].plaintext
    IN  restore_backup_except(
            IF backup_path \notin DOMAIN st.files
            THEN RaiseException(st, BackupError("restore", <<"Backup file not found">>))
            ELSE IF ~fernet_decrypts(fernet, st.files[backup_path])
            THEN RaiseException(st, BackupError("decrypt",
                     <<"Failed to decrypt backup - invalid password or corrupted file: ",
                       "InvalidToken">>))
            ELSE IF ~backup_data_valid(backup_data)
            THEN RaiseException(st, BackupError("validate",
                     <<"Invalid backup format - not a Keymaster backup">>))
            ELSE restore_and_log(st, backup_data, overwrite_existing, f))

\* BackupManager.restore_backup. f: the faults of the calls it makes
\* (list: list_keys of the analysis; keys: per archived key; audit: log_event succeeds)
restore_backup(st, backup_path, password, dry_run, overwrite_existing, f) ==
    LET fernet == derive_key_from_password(password)
        backup_data == st.files[backup_path].plaintext
    IN  restore_backup_except(
            IF backup_path \notin DOMAIN st.files
            THEN RaiseException(st, BackupError("restore", <<"Backup file not found">>))
            ELSE IF ~fernet_decrypts(fernet, st.files[backup_path])
            THEN RaiseException(st, BackupError("decrypt",
                     <<"Failed to decrypt backup - invalid password or corrupted file: ",
                       "InvalidToken">>))
            ELSE IF ~backup_data_valid(backup_data)
            THEN RaiseException(st, BackupError("validate",
                     <<"Invalid backup format - not a Keymaster backup">>))
            ELSE IF dry_run THEN analyze_backup_contents(st, backup_data, f.list)
            ELSE restore_and_log(st, backup_data, overwrite_existing, f))

---------------------------------------------------------------------------
(* The backup manager over the key store *)

\* the most events audit.log holds
MaxAudit == 1

BackupFile == <<"k","e","y","s",".","k","m","b","a","c","k","u","p">>
Passwords  == {"pw1", "pw2"}

BackupStoreKey ==
    \E service \in {openai, acme}, api_key \in ApiKeys :
        Commit("store_key", service, prod, api_key, "none",
               store_key(Enter(keyring, db), service, prod, api_key, "none"))

BackupRemoveKey ==
    \E service \in {openai, acme} :
        Commit("remove_key", service, prod, None, "none",
               remove_key(Enter(keyring, db), service, prod, "none"))

CreateBackup ==
    /\ Len(auditLog) < MaxAudit
    /\ \E service_filter \in {NoService, openai}, fault \in {"none", "collect", "audit"} :
      \E r \in {create_backup(Enter(keyring, db), BackupFile, "pw1", FALSE,
                               service_filter, NoEnvironment, fault)} :
            /\ files' = r.files
            /\ auditLog' = r.auditLog
            /\ last' = [op |-> "create_backup", raised |-> r.raised, exc |-> r.exc,
                        ret |-> r.ret]
            /\ UNCHANGED <<sync, procs, secure, keyring, db, ledger, recorded, clock>>

\* the bytes of an archive are damaged on disk
CorruptFile ==
    \E path \in DOMAIN files :
        /\ files[path] # Garbage
        /\ files' = [files EXCEPT ![path] = Garbage]
        /\ last' = [op |-> "corrupt_file"]
        /\ UNCHANGED <<sync, procs, secure, keyring, db, ledger, recorded, auditLog, clock>>

\* the keys of the archive at BackupFile, when it is one the password opens
ArchiveKeys(fs, password) ==
    IF /\ BackupFile \in DOMAIN fs
       /\ fernet_decrypts(derive_key_from_password(password), fs[BackupFile])
    THEN fs[BackupFile].plaintext.keys
    ELSE <<>>

\* the restore of the at-th archived key raises in the way kind says
KeyFaultsAt(keys, at, kind) == [i \in DOMAIN keys |-> IF i = at THEN kind ELSE "none"]

\* the faults a restore_backup call meets: only list_keys is called by a dry
\* run, only the per-key calls and log_event by a real one
RestoreFaults(keys, dry_run) ==
    IF dry_run
    THEN [list : {"none", "backend"}, keys : {KeyFaultsAt(keys, 0, "none")}, audit : {TRUE}]
    ELSE [list : {"none"},
          keys : {KeyFaultsAt(keys, at, kind) : at \in DOMAIN keys, kind \in {"get", "store"}}
                 \cup {KeyFaultsAt(keys, 0, "none")},
          audit : BOOLEAN]

RestoreBackup ==
    /\ Len(auditLog) < MaxAudit
    /\ \E password \in Passwords, dry_run \in BOOLEAN, overwrite_existing \in BOOLEAN :
      \E f \in RestoreFaults(ArchiveKeys(files, password), dry_run) :
      \E st \in {Enter(keyring, db)}, keys \in {ArchiveKeys(files, password)} :
        \E r \in {restore_backup(st, BackupFile, password, dry_run, overwrite_existing, f)} :
            /\ keyring' = r.keyring
            /\ db' = r.db
            /\ auditLog' = r.auditLog
            /\ last' = [op |-> "restore_backup", password |-> password,
                        dry_run |-> dry_run, overwrite_existing |-> overwrite_existing,
                        raised |-> r.raised, exc |-> r.exc, ret |-> r.ret,
                        stored |-> r.stored, faults |-> f,
                        pre_absent |-> {i \in DOMAIN keys :
                            get_key(st, keys[i].service, keys[i].environment,
                                    "none").ret = None},
                        unchanged |-> /\ r.keyring = keyring
                                      /\ r.db = db
                                      /\ r.auditLog = auditLog
                                      /\ r.files = files]
            /\ UNCHANGED <<sync, procs, secure, ledger, recorded, files, clock>>

NextBackup ==
    BackupStoreKey \/ BackupRemoveKey \/ CreateBackup \/ CorruptFile \/ RestoreBackup

SpecBackup == Init /\ [][NextBackup]_vars

---------------------------------------------------------------------------
(* Claims about the backup manager, checked under SpecBackup *)

\* the last call was restore_backup
Restored == last.op = "restore_backup"

\* the archive the last restore_backup read
LastArchiveKeys == ArchiveKeys(files, last.password)

\* the store_key invocation that restores the i-th archived key
StoreOf(keys, i) == <<keys[i].service, keys[i].environment, keys[i].key>>

\* the store_key invocations of the last call
Invoked == {last.stored[i] : i \in DOMAIN last.stored}

\* C8: restore_backup(path, password, dry_run=True) never invokes
\* KeyStore.store_key and emits no audit event: the OS credential store, the
\* metadata database and the audit log are after the call what they were
\* before it, whatever the archive and the store hold.
C8_DryRunChangesNothing ==
    (Restored /\ last.dry_run) => (last.stored = <<>> /\ last.unchanged)

\* a dry run has returned the analysis of an archive that holds a key the
\* store lacks
C8_Witness ==
    /\ Restored /\ last.dry_run /\ ~last.raised
    /\ last.ret.new_keys > 0
    /\ last.ret.conflicts > 0

\* a real restore with overwrite_existing=False has returned its summary
RestoredNoOverwrite ==
    Restored /\ ~last.dry_run /\ ~last.overwrite_existing /\ ~last.raised

\* C9 as stated: a real restore with overwrite_existing=False stores exactly
\* the archived keys absent from the store and counts every other as skipped:
\* skipped_keys = len(archive.keys) - restored_keys, also when a store fails.
C9_SkippedIsTheRest ==
    RestoredNoOverwrite =>
        /\ Invoked = {StoreOf(LastArchiveKeys, i) : i \in last.pre_absent}
        /\ last.ret.skipped_keys = Len(LastArchiveKeys) - last.ret.restored_keys

\* C9, amended: a real restore with overwrite_existing=False invokes
\* store_key for exactly the archived keys for which get_key returns no value,
\* counts as restored those of them whose store_key returns, counts as
\* skipped exactly the archived keys for which get_key returns a value, and
\* adds one error for each archived key whose get_key or store_key raises:
\* restored_keys + skipped_keys + len(errors) = len(archive.keys).
C9_RestoredSkippedErrors ==
    RestoredNoOverwrite =>
        LET keys == LastArchiveKeys
            got  == {i \in DOMAIN keys : last.faults.keys[i] # "get"}
        IN  /\ Invoked = {StoreOf(keys, i) : i \in last.pre_absent \cap got}
            /\ last.ret.restored_keys =
                   Cardinality({i \in last.pre_absent \cap got :
                                    last.faults.keys[i] # "store"})
            /\ last.ret.skipped_keys = Cardinality(got \ last.pre_absent)
            /\ last.ret.restored_keys + last.ret.skipped_keys + Len(last.ret.errors)
                   = Len(keys)
            /\ last.ret.total_processed = Len(keys)

\* of two archived keys the restore has stored one, the other stayed as it
\* was in the store
C9_Witness ==
    /\ RestoredNoOverwrite
    /\ last.ret.restored_keys = 1
    /\ last.ret.skipped_keys = 1
    /\ last.ret.errors = <<>>

\* C10: restore_backup on an existing file that the password-derived key does
\* not decrypt (wrong password or damaged bytes) raises a BackupError whose
\* operation is "decrypt", and stores no key.
C10_DecryptOperation ==
    (/\ Restored
     /\ BackupFile \in DOMAIN files
     /\ ~fernet_decrypts(derive_key_from_password(last.password), files[BackupFile]))
    => /\ last.raised
       /\ last.exc.type = "BackupError"
       /\ last.exc.operation = "decrypt"
       /\ last.stored = <<>>

---------------------------------------------------------------------------
(* KeyRotator (rotation.py) *)

Digits == <<"0", "1", "2", "3", "4", "5", "6", "7", "8", "9">>

\* a number in decimal digits
RECURSIVE Decimal(_)
Decimal(n) ==
    IF n < 10 THEN <<Digits[n + 1]>>
    ELSE Decimal(n \div 10) \o <<Digits[(n % 10) + 1]>>

\* datetime.now().strftime("%Y%m%d_%H%M%S"): every field is zero-padded, so
\* the text has one width and sorts as the time does (two digits here)
strftime(now) == IF now < 10 THEN <<"0">> \o Decimal(now) ELSE Decimal(now)

RotationError(message, service, environment) ==
    [type |-> "RotationError", operation |-> "none", message |-> message,
     service |-> service, environment |-> environment]

\* one statement after another inside a try: a raise skips the rest
Try(value, rest(_)) == Then(value, LAMBDA r : IF r.raised THEN r ELSE rest(r))

\* self.history.record_rotation: _write_history drops the history when the
\* file cannot be written
history_record_rotation(st, service, environment, success, backup_path, error_message, writable) ==
    IF writable
    THEN [st EXCEPT !.ledger = record_rotation(@, service, environment, success,
                                               backup_path, error_message, st.now)]
    ELSE st

\* os.path.expanduser("~/.keymaster/rotation_backups"), joined to a file name
backup_dir == <<"~/.keymaster/rotation_backups/">>

\* the file name _create_pre_rotation_backup writes
backup_filename(service, environment, timestamp) ==
    <<"pre_rotation_">> \o service \o <<"_">> \o environment
    \o <<"_">> \o timestamp \o <<".kmbackup">>

\* _create_pre_rotation_backup
create_pre_rotation_backup(st, service, environment, password, fault) ==
    LET timestamp == strftime(st.now)
        backup_password == IF password = None
                           THEN <<"rotation_backup_">> \o timestamp
                           ELSE password
        backup_path == backup_dir \o backup_filename(service, environment, timestamp)
    IN  Try(create_backup(st, backup_path, backup_password, FALSE,
                          service, environment, fault),
            LAMBDA r : Return(r, backup_path))

\* _test_new_key whose probe accepts every key of every service
test_new_key_accepting(st, service, new_key, rejected) == Return(st, None)

\* _test_new_key. rejected: provider.test_key raises
test_new_key(st, service, new_key, rejected) ==
    IF ~HasProvider(service)
    THEN RaiseException(st, RotationError(<<"Provider not found for service: ">> \o service,
                                          service, None))
    ELSE IF rejected
    THEN RaiseException(st, RotationError(<<"New key validation failed: ", "HTTPError">>,
                                          service, None))
    ELSE Return(st, None)

\* _backup_old_key_in_keystore: a failing store_key is logged and dropped
backup_old_key_in_keystore(st, service, environment, old_key, fault) ==
    LET timestamp == strftime(st.now)
        backup_service == service \o <<"_backup_">> \o timestamp
    IN  Then(store_key(st, backup_service, environment, old_key, fault),
             LAMBDA r : Return([r EXCEPT !.exc = NoException], None))

\* the faults of the calls a rotation makes. step: the call that raises
\* ("none": no call does); writable: the history file can be written
RotationSteps == {"none", "get_key", "backup", "probe", "alias", "store_key", "audit"}

\* _perform_rotation
perform_rotation(st, service, environment, new_key, test_key, create_backup_, backup_password, f) ==
    Try(get_key(st, service, environment,
                IF f.step = "get_key" THEN "backend" ELSE "none"),
        LAMBDA got :
    Try(IF create_backup_ /\ got.ret # None
        THEN create_pre_rotation_backup(got, service, environment, backup_password,
                 IF f.step = "backup" THEN "collect" ELSE "none")
        ELSE Return(got, None),
        LAMBDA backed :
    Try(IF test_key THEN test_new_key(backed, service, new_key, f.step = "probe")
                    ELSE backed,
        LAMBDA tested :
    Try(IF got.ret # None
        THEN backup_old_key_in_keystore(tested, service, environment, got.ret,
                 IF f.step = "alias" THEN "backend" ELSE "none")
        ELSE tested,
        LAMBDA aliased :
    Try(store_key(aliased, service, environment, new_key,
                  IF f.step = "store_key" THEN "backend" ELSE "none"),
        LAMBDA new_stored :
    Try(log_event(history_record_rotation(new_stored, service, environment, TRUE,
                                          backed.ret, None, f.writable),
                  "key_rotation_enhanced", service, environment, f.step # "audit"),
        LAMBDA logged :
            Return(logged, [service |-> service, environment |-> environment,
                            timestamp |-> st.now,
                            backup_created |-> create_backup_ /\ got.ret # None,
                            backup_path |-> backed.ret,
                            key_tested |-> test_key,
                            old_key_backed_up |-> got.ret # None,
                            rotation_successful |-> TRUE])))))))

\* rotate_key whose handler raises without recording the failure
rotate_key_unrecorded(st, service, environment, new_key, test_key, create_backup_, backup_password, f) ==
    Then(perform_rotation(st, service, environment, new_key, test_key,
                          create_backup_, backup_password, f),
         LAMBDA r :
            IF r.raised
            THEN RaiseException(r, RotationError(<<"Key rotation failed: ">> \o r.exc.message,
                                                 service, environment))
            ELSE r)

\* KeyRotator.rotate_key
rotate_key(st, service, environment, new_key, test_key, create_backup_, backup_password, f) ==
    Then(perform_rotation(st, service, environment, new_key, test_key,
                          create_backup_, backup_password, f),
         LAMBDA r :
            IF r.raised
            THEN RaiseException(
                     history_record_rotation(r, service, environment, FALSE, None,
                                             r.exc.message, f.writable),
                     RotationError(<<"Key rotation failed: ">> \o r.exc.message,
                                   service, environment))
            ELSE r)

---------------------------------------------------------------------------
(* The rotator over the key store, the archives, the audit log and the ledger *)

\* the most rotate_key calls of a run
MaxRotations == 2

\* the steps rotate_key(service, environment, ..) runs from the current
\* state when none of them raises (plus "none")
StepsOf(old_key, service, test_key, create_backup_) ==
    {"none", "get_key"}
    \cup (IF create_backup_ /\ old_key # None THEN {"backup"} ELSE {})
    \cup (IF test_key /\ HasProvider(service) THEN {"probe"} ELSE {})
    \cup (IF test_key /\ ~HasProvider(service) THEN {}
          ELSE {"store_key", "audit"}
               \cup (IF old_key # None THEN {"alias"} ELSE {}))

RotateKey ==
    /\ clock < MaxRotations
    /\ \E service \in {openai, acme}, test_key \in BOOLEAN, create_backup_ \in BOOLEAN,
          writable \in BOOLEAN :
      \E st \in {Enter(keyring, db)}, old_key \in {GetNow(service, prod)} :
      \E new_key \in ApiKeys \ {old_key},
         backup_password \in IF create_backup_ /\ old_key # None THEN {None, "pw1"}
                                                                 ELSE {None},
         step \in StepsOf(old_key, service, test_key, create_backup_) :
      \E r \in {rotate_key(st, service, prod, new_key, test_key, create_backup_,
                           backup_password, [step |-> step, writable |-> writable])} :
        /\ keyring' = r.keyring
        /\ db' = r.db
        /\ files' = r.files
        /\ auditLog' = r.auditLog
        /\ ledger' = r.ledger
        /\ clock' = clock + 1
        /\ last' = [op |-> "rotate_key", service |-> service, environment |-> prod,
                    new_key |-> new_key, test_key |-> test_key, step |-> step,
                    writable |-> writable,
                    raised |-> r.raised, exc |-> r.exc, ret |-> r.ret,
                    stored |-> r.stored,
                    pre_key |-> old_key,
                    pre_ledger |-> ledger,
                    pre_files |-> files]
        /\ UNCHANGED <<sync, procs, secure, recorded>>

NextRotation == RotateKey

SpecRotation == Init /\ [][NextRotation]_vars

---------------------------------------------------------------------------
(* Claims about the rotator, checked under SpecRotation *)

\* the last call was rotate_key
Rotated == last.op = "rotate_key"

\* the provider of the service is unknown, or its probe rejects the new key
ProbeFails == ~HasProvider(last.service) \/ last.step = "probe"

\* the ledger entries of the pair of the last call, before it and now
HistoryBefore == get_rotation_history(last.pre_ledger, last.service, last.environment)
HistoryNow    == get_rotation_history(ledger, last.service, last.environment)

\* the failed entry the handler of the last call records
FailedEntry == rotation_record(clock - 1, FALSE, None, Tail(last.exc.message))

\* the last call raised RotationError carrying its service and environment
RaisedRotationError ==
    /\ last.raised
    /\ last.exc.type = "RotationError"
    /\ last.exc.service = last.service
    /\ last.exc.environment = last.environment

\* C4: when rotate_key is called with test_key=True and the provider of the
\* service is unknown or its probe rejects the new key, rotate_key raises
\* RotationError, store_key is not invoked for (service, environment), and
\* get_key(service, environment) returns afterwards what it returned before.
C4_RejectedKeyNotStored ==
    (Rotated /\ last.test_key /\ ProbeFails) =>
        /\ last.raised
        /\ last.exc.type = "RotationError"
        /\ \A i \in DOMAIN last.stored :
              DbKey(last.stored[i][1], last.stored[i][2])
                  # DbKey(last.service, last.environment)
        /\ GetNow(last.service, last.environment) = last.pre_key

\* the probe has rejected the new key of a pair that holds a key, after the
\* pre-rotation archive was written
C4_Witness ==
    /\ Rotated /\ last.test_key /\ last.step = "probe"
    /\ last.pre_key # None
    /\ last.new_key # last.pre_key
    /\ files # last.pre_files
    /\ last.raised

\* a step of the last call raised: reading the current key, the archive
\* backup, the probe (or the provider lookup), storing the new key, the
\* audit event
StepRaised ==
    \/ last.step \in {"get_key", "backup", "probe", "store_key", "audit"}
    \/ last.test_key /\ ~HasProvider(last.service)

\* C5 as stated: whenever a step of rotate_key fails (reading the current
\* key, archive backup, probe, storing the new key, recording history, audit
\* event) the call raises RotationError(service, environment) and a failed
\* entry with the failure message has been appended to the ledger.
C5_EveryFailureRaisesAndIsRecorded ==
    (Rotated /\ (StepRaised \/ ~last.writable)) =>
        /\ RaisedRotationError
        /\ Len(HistoryNow) > Len(HistoryBefore)
        /\ HistoryNow[Len(HistoryNow)] = FailedEntry

\* C5, amended: whenever a step of rotate_key raises (reading the current
\* key, archive backup, probe or provider lookup, storing the new key, audit
\* event) the call raises RotationError(service, environment) after calling
\* record_rotation with success=false and the failure message; the entry is
\* appended under "service:environment" if the history file can be written,
\* else the ledger stays as it was. A failure to write the history file
\* raises nothing: a rotation none of whose steps raises returns normally.
C5_RaisedStepIsRecordedIfWritable ==
    Rotated =>
        /\ StepRaised =>
            /\ RaisedRotationError
            /\ last.writable =>
                 HistoryNow = LastN(HistoryBefore
                                    \o (IF last.step = "audit"
                                        THEN <<HistoryNow[Len(HistoryNow) - 1]>>
                                        ELSE <<>>)
                                    \o <<FailedEntry>>, HistoryLimit)
            /\ (last.writable /\ last.step = "audit") =>
                 HistoryNow[Len(HistoryNow) - 1].success
            /\ ~last.writable => ledger = last.pre_ledger
        /\ ~StepRaised =>
            /\ ~last.raised
            /\ last.ret.rotation_successful
            /\ GetNow(last.service, last.environment) = last.new_key
            /\ last.writable =>
                 /\ Len(HistoryNow) = Len(HistoryBefore) + 1
                 /\ HistoryNow[Len(HistoryNow)].success
            /\ ~last.writable => ledger = last.pre_ledger

\* storing the new key has failed after the old key was copied to its alias,
\* and the failure is in the ledger
C5_Witness ==
    /\ Rotated /\ last.step = "store_key" /\ last.writable
    /\ last.pre_key # None
    /\ last.stored # <<>>
    /\ RaisedRotationError
    /\ HistoryNow[Len(HistoryNow)] = FailedEntry

---------------------------------------------------------------------------
(* SecureString (memory_security.py) *)
(* An object is the record of its attributes; a method call gives the      *)
(* object after the call, whether it raised, with what, and its result.    *)

Redacted == <<"<SecureString: [REDACTED]>">>
ClearedMessage == "SecureString has been cleared"

\* ""
EmptyString == <<>>

Called(obj, raised, exc, ret) == [obj |-> obj, raised |-> raised, exc |-> exc, ret |-> ret]

ValueError(message) == Exception("ValueError", "none", <<message>>)

\* SecureString.__init__
SecureString(value) == [value |-> value, cleared |-> FALSE]

\* SecureString.__str__
SecureString_str(self) ==
    IF self.cleared THEN Called(self, TRUE, ValueError(ClearedMessage), None)
    ELSE Called(self, FALSE, NoException, self.value)

\* SecureString.__repr__
SecureString_repr(self) == Called(self, FALSE, NoException, Redacted)

\* SecureString.__len__
SecureString_len(self) ==
    IF self.cleared THEN Called(self, FALSE, NoException, 0)
    ELSE Called(self, FALSE, NoException, Len(self.value))

\* SecureString.clear. zeroed: whether secure_zero_memory got the memory
\* zeroed; its failures are logged, never raised
SecureString_clear(self, zeroed) ==
    IF ~self.cleared /\ self.value # EmptyString
    THEN Called([self EXCEPT !.value = EmptyString, !.cleared = TRUE],
                FALSE, NoException, None)
    ELSE Called(self, FALSE, NoException, None)

\* SecureString.get
SecureString_get(self) ==
    IF self.cleared THEN Called(self, TRUE, ValueError(ClearedMessage), None)
    ELSE Called(self, FALSE, NoException, self.value)

\* SecureString.is_cleared
SecureString_is_cleared(self) == Called(self, FALSE, NoException, self.cleared)

---------------------------------------------------------------------------
(* A SecureString in use *)

MaxClears == 3

\* the strings wrapped: the empty one, API keys, the words of the marker
Values ==
    { EmptyString, <<"k">>, <<"s","k","-","1">>, <<"s","k","-","2">>,
      <<"R","E","D","A","C","T","E","D">> }

Methods == {"str", "repr", "len", "get", "is_cleared"}

Method(name, self) ==
    CASE name = "str" -> SecureString_str(self)
      [] name = "repr" -> SecureString_repr(self)
      [] name = "len" -> SecureString_len(self)
      [] name = "get" -> SecureString_get(self)
      [] name = "is_cleared" -> SecureString_is_cleared(self)

InitSecure ==
    /\ keyring = Empty
    /\ db = Empty
    /\ ledger = Empty
    /\ recorded = Empty
    /\ files = Empty
    /\ auditLog = <<>>
    /\ clock = 0
    /\ procs = None
    /\ sync  = None
    /\ \E value \in Values :
        /\ secure = SecureString(value)
        /\ last = [op |-> "init", value |-> value, clears |-> 0]

\* the object leaves the call as the method left it; last keeps the value the
\* object was made with and the number of clear() calls so far
Call ==
    \E name \in Methods :
        \E r \in {Method(name, secure)} :
            /\ secure' = r.obj
            /\ last' = [op |-> name, raised |-> r.raised, exc |-> r.exc, ret |-> r.ret,
                        value |-> last.value, clears |-> last.clears]
            /\ UNCHANGED <<sync, procs, keyring, db, ledger, recorded, files, auditLog, clock>>

Clear ==
    /\ last.clears < MaxClears
    /\ \E zeroed \in BOOLEAN :
        \E r \in {SecureString_clear(secure, zeroed)} :
            /\ secure' = r.obj
            /\ last' = [op |-> "clear", raised |-> r.raised, exc |-> r.exc, ret |-> r.ret,
                        value |-> last.value, clears |-> last.clears + 1]
            /\ UNCHANGED <<sync, procs, keyring, db, ledger, recorded, files, auditLog, clock>>

NextSecure ==
    \/ Call
    \/ Clear

SpecSecure == InitSecure /\ [][NextSecure]_vars

---------------------------------------------------------------------------
(* Claims about SecureString *)

RaisesCleared(r) ==
    r.raised /\ r.exc.type = "ValueError" /\ r.exc.message = <<ClearedMessage>>

\* C15: whatever string a SecureString wraps, once clear() has been called
\* get() and str() fail with the "has been cleared" error, len() is 0 and
\* is_cleared() is true, clear() itself never raises, and repr() is the
\* redaction marker before and after.
C15_ClearedForGood ==
    /\ last.op = "clear" => ~last.raised
    /\ SecureString_repr(secure).ret = Redacted
    /\ last.clears > 0 =>
          /\ RaisesCleared(SecureString_get(secure))
          /\ RaisesCleared(SecureString_str(secure))
          /\ SecureString_len(secure).ret = 0
          /\ SecureString_is_cleared(secure).ret

---------------------------------------------------------------------------
(* The init command (cli.py) *)
(* The directories are entries of files. f, the faults of one run:         *)
(* writable (the settings file), mkdir (os.makedirs works), verify (init's *)
(* own _verify_backend call: "none" or "backend"), store, get, remove (the *)
(* calls of the storage test, in Faults), key (the faults of the logger's  *)
(* construction), new_key, log (the event can be appended).                *)

LogsDir == "~/.keymaster/logs"
DbDir   == "~/.keymaster/db"
Directory == [dir |-> TRUE]

TestService == <<"_","_","k","e","y","m","a","s","t","e","r","_","t","e","s","t","_","_">>
TestEnv     == <<"_","_","t","e","s","t","_","_">>
TestValue   == "test_value"

AlreadyInitialized == "Keymaster is already initialized and ready to use."
InitComplete       == "Keymaster initialization complete."
StorageWarning     == "Warning: Secure storage test failed."
BackendWarning     == "Warning: Could not verify secure storage access"

initial_config ==
    [log_level |-> "INFO", log_file |-> "~/.keymaster/logs/keymaster.log",
     audit_file |-> "~/.keymaster/logs/audit.log", db_path |-> "~/.keymaster/db/keymaster.db"]

\* ConfigManager.config_exists
config_exists(fs) == ConfigPath \in DOMAIN fs

is_initialized(fs) == config_exists(fs) /\ LogsDir \in DOMAIN fs /\ DbDir \in DOMAIN fs

\* os.makedirs for the directories that are missing
makedirs(st, dirs) ==
    [st EXCEPT !.files = [p \in DOMAIN st.files \cup dirs |->
                             IF p \in DOMAIN st.files THEN st.files[p] ELSE Directory]]

\* the try block of init: the backend check and the throwaway round trip.
\* Returns whether the name retrieved got bound, its value, and the warning
\* printed, if any
storage_test(st, f) ==
    IF f.verify # "none"
    THEN Return(st, [bound |-> FALSE, retrieved |-> None, warning |-> <<BackendWarning>>])
    ELSE Then(store_key(st, TestService, TestEnv, TestValue, f.store), LAMBDA s :
        IF s.raised
        THEN Return(s, [bound |-> FALSE, retrieved |-> None, warning |-> <<BackendWarning>>])
        ELSE Then(get_key(s, TestService, TestEnv, f.get), LAMBDA g :
            IF g.raised
            THEN Return(g, [bound |-> FALSE, retrieved |-> None,
                            warning |-> <<BackendWarning>>])
            ELSE Then(remove_key(g, TestService, TestEnv, f.remove), LAMBDA r :
                Return(r, [bound |-> TRUE, retrieved |-> g.ret,
                           warning |-> IF r.raised THEN <<BackendWarning>>
                                       ELSE IF g.ret # TestValue THEN <<StorageWarning>>
                                       ELSE <<>>]))))

\* the additional_data of the init event
init_metadata(retrieved, changes_made) ==
    [action |-> "init",
     storage_test |-> IF retrieved = TestValue THEN "success" ELSE "failed",
     changes_made |-> changes_made]

\* init from the creation of the settings file on
init_steps(st, f) ==
    Then(IF config_exists(st.files) THEN st ELSE write_config(st, initial_config, f.writable),
         LAMBDA c :
        IF ~f.mkdir /\ ~({LogsDir, DbDir} \subseteq DOMAIN c.files)
        THEN RaiseException(c, Exception("OSError", "makedirs", <<"OSError">>))
        ELSE Then(storage_test(makedirs(c, {LogsDir, DbDir}), f), LAMBDA t :
            Then(AuditLogger(t, f.new_key, f.key), LAMBDA a :
                IF a.raised THEN a
                ELSE IF ~t.ret.bound
                THEN RaiseException(a, Exception("UnboundLocalError", "init",
                                                 <<"retrieved">>))
                ELSE Then(log_event_full(a, "init", NoService, NoEnvironment, NoData,
                              init_metadata(t.ret.retrieved,
                                  (IF config_exists(st.files) THEN <<>>
                                   ELSE <<"Created initial configuration file">>)
                                  \o (IF t.ret.warning # <<>> THEN <<>>
                                      ELSE <<"Verified secure storage access">>)),
                              a.ret, f.log),
                          LAMBDA l :
                    IF l.raised THEN l
                    ELSE Return(l, t.ret.warning \o <<InitComplete>>)))))

\* init that does not look whether the installation is initialized
init_again(st, f) == init_steps(st, f)

\* the init command; returns what it prints
init(st, f) ==
    IF is_initialized(st.files) THEN Return(st, <<AlreadyInitialized>>)
    ELSE init_steps(st, f)

---------------------------------------------------------------------------
(* Installations being initialized *)

MaxInits == 3

NoInitFaults ==
    [writable |-> TRUE, mkdir |-> TRUE, verify |-> "none", store |-> "none",
     get |-> "none", remove |-> "none", new_key |-> FreshKey, log |-> TRUE,
     key |-> NoKeyFaults @@ [creatable |-> TRUE]]

\* a run without fault, and the runs with one
InitFaults ==
    {NoInitFaults}
    \cup {[NoInitFaults EXCEPT !.writable = FALSE], [NoInitFaults EXCEPT !.mkdir = FALSE],
          [NoInitFaults EXCEPT !.verify = "backend"], [NoInitFaults EXCEPT !.log = FALSE]}
    \cup {[NoInitFaults EXCEPT !.store = x] : x \in Faults}
    \cup {[NoInitFaults EXCEPT !.get = x] : x \in Faults}
    \cup {[NoInitFaults EXCEPT !.remove = x] : x \in Faults}
    \cup {[NoInitFaults EXCEPT !.key.store_fresh = x] : x \in SystemFaults}
    \cup {[NoInitFaults EXCEPT !.key.get = x] : x \in SystemFaults}

RunInit ==
    /\ clock < MaxInits
    /\ \E f \in InitFaults :
        \E r \in {init(Enter(keyring, db), f)} :
            /\ keyring' = r.keyring
            /\ db' = r.db
            /\ files' = r.files
            /\ auditLog' = r.auditLog
            /\ clock' = clock + 1
            /\ last' = [op |-> "init", raised |-> r.raised, exc |-> r.exc, ret |-> r.ret,
                        f |-> f, pre_initialized |-> is_initialized(files),
                        unchanged |-> /\ r.keyring = keyring /\ r.db = db
                                      /\ r.files = files /\ r.auditLog = auditLog]
            /\ UNCHANGED <<sync, procs, secure, ledger, recorded>>

NextInit ==
    \/ RunInit
    \/ ResetConfig

SpecInit == InitAuditKey /\ [][NextInit]_vars

---------------------------------------------------------------------------
(* Claims about init *)

\* the init event of the last line of the audit log, if that is one
LastLine == auditLog[Len(auditLog)]
InitEventLogged ==
    /\ auditLog # <<>>
    /\ json_decodes(LastLine)
    /\ json_loads(LastLine).event_type = "init"
    /\ json_loads(LastLine).timestamp = clock - 1

\* the storage test of the last init saw a call raise
BackendTestRaised ==
    /\ last.op = "init"
    /\ ~last.pre_initialized
    /\ \/ last.f.verify # "none"
       \/ last.f.store # "none"
       \/ last.f.get # "none"
       \/ last.f.remove # "none"

\* C16: once the settings file and both directories are there, a further
\* init reports "already initialized" and writes nothing: settings file,
\* directories, OS store, metadata database and audit log are unchanged.
C16_InitIdempotent ==
    last.op = "init" /\ last.pre_initialized
        => /\ ~last.raised
           /\ last.ret = <<AlreadyInitialized>>
           /\ last.unchanged

\* init has run on an installation that an earlier init had completed
C16_Witness ==
    /\ last.op = "init"
    /\ last.pre_initialized
    /\ last.ret = <<AlreadyInitialized>>
    /\ \E i \in DOMAIN auditLog :
          json_decodes(auditLog[i]) /\ json_loads(auditLog[i]).event_type = "init"

\* C17: when _verify_backend or a call of the throwaway round trip raises,
\* init warns and still completes: it logs the init event with the storage
\* test marked failed and ends with the completion message.
C17_BackendFailureIsWarning ==
    BackendTestRaised /\ last.f.mkdir /\ last.f.log
        => /\ ~last.raised
           /\ InitEventLogged
           /\ json_loads(LastLine).metadata.storage_test = "failed"
           /\ last.ret = <<BackendWarning, InitComplete>>

---------------------------------------------------------------------------
(* KeyStore calls step by step (security.py) *)
(* A process is in one call: op, the statement it is about to run (pc),    *)
(* its arguments, the metadata it has read, and how the call ended. The    *)
(* statements are those of store_key, get_key and remove_key that touch a  *)
(* store; each is one step, and the steps of two processes interleave.     *)

Proc(op, pc, service, environment, api_key) ==
    [op |-> op, pc |-> pc, service |-> service, environment |-> environment,
     api_key |-> api_key, name |-> <<>>, raised |-> FALSE, ret |-> None]

NoProc == Proc("none", "done", NoService, NoEnvironment, None)

\* the statement a call starts with
FirstStep(op) == IF op = "store_key" THEN "set_password" ELSE "get_key_metadata"

Stepped(kr, d, proc) == [keyring |-> kr, db |-> d, proc |-> proc]

\* store_key: keyring.set_password, then db.add_key
store_key_step(kr, d, self) ==
    IF self.pc = "set_password"
    THEN Stepped(keyring_set_password(kr,
                     get_keyring_service_name(Lower(self.service), self.environment),
                     Lower(self.environment), self.api_key),
                 d, [self EXCEPT !.pc = "add_key"])
    ELSE Stepped(kr,
                 DbAddKey(d, Lower(self.service), self.environment,
                          get_keyring_service_name(Lower(self.service), self.environment),
                          User),
                 [self EXCEPT !.pc = "done"])

\* get_key: db.get_key_metadata, then keyring.get_password
get_key_step(kr, d, self) ==
    IF self.pc = "get_key_metadata"
    THEN IF ~DbHasKey(d, self.service, self.environment)
         THEN Stepped(kr, d, [self EXCEPT !.pc = "done", !.ret = None])
         ELSE Stepped(kr, d, [self EXCEPT !.pc = "get_password",
                      !.name = DbGetKeyMetadata(d, self.service,
                                                self.environment).keychain_service_name])
    ELSE Stepped(kr, d, [self EXCEPT !.pc = "done",
                 !.ret = keyring_get_password(kr, self.name, Lower(self.environment))])

\* keyring.delete_password of remove_key without the except clause
delete_password_uncaught(kr, d, self) ==
    IF <<self.name, Lower(self.environment)>> \in DOMAIN kr
    THEN Stepped(keyring_delete_password(kr, self.name, Lower(self.environment)), d,
                 [self EXCEPT !.pc = "remove_key"])
    ELSE Stepped(kr, d, [self EXCEPT !.pc = "done", !.raised = TRUE])

\* keyring.delete_password in the try of remove_key: PasswordDeleteError is
\* caught and logged, and the call ends there
delete_password_step(kr, d, self) ==
    IF <<self.name, Lower(self.environment)>> \in DOMAIN kr
    THEN Stepped(keyring_delete_password(kr, self.name, Lower(self.environment)), d,
                 [self EXCEPT !.pc = "remove_key"])
    ELSE Stepped(kr, d, [self EXCEPT !.pc = "done"])

\* remove_key: db.get_key_metadata, keyring.delete_password, db.remove_key
remove_key_step(kr, d, self) ==
    IF self.pc = "get_key_metadata"
    THEN IF ~DbHasKey(d, self.service, self.environment)
         THEN Stepped(kr, d, [self EXCEPT !.pc = "done"])
         ELSE Stepped(kr, d, [self EXCEPT !.pc = "delete_password",
                      !.name = DbGetKeyMetadata(d, self.service,
                                                self.environment).keychain_service_name])
    ELSE IF self.pc = "delete_password" THEN delete_password_step(kr, d, self)
    ELSE Stepped(kr, DbRemoveKey(d, self.service, self.environment),
                 [self EXCEPT !.pc = "done"])

---------------------------------------------------------------------------
(* Two CLI processes on one pair *)

MaxCalls == 4

Procs == {1, 2}

\* the spellings of the pair the processes use
RaceServices == {OpenAI, openai}

InitRaces ==
    /\ keyring = Empty
    /\ db = Empty
    /\ ledger = Empty
    /\ recorded = Empty
    /\ files = Empty
    /\ auditLog = <<>>
    /\ clock = 0
    /\ secure = None
    /\ procs = [p \in Procs |-> NoProc]
    /\ sync  = None
    /\ last = [op |-> "none", written |-> {}, crashed |-> FALSE]

\* a process is started: one invocation of the CLI
Start(p) ==
    /\ procs[p].pc = "done"
    /\ clock < MaxCalls
    /\ \E op \in {"store_key", "get_key", "remove_key"}, service \in RaceServices,
          api_key \in ApiKeys :
        /\ op # "store_key" => api_key = "k1"
        /\ procs' = [procs EXCEPT ![p] = Proc(op, FirstStep(op), service, prod,
                                              IF op = "store_key" THEN api_key ELSE None)]
        /\ last' = [last EXCEPT !.op = "start"]
    /\ clock' = clock + 1
    /\ UNCHANGED <<sync, keyring, db, ledger, recorded, files, auditLog, secure>>

\* a process runs its next statement
Step(p) ==
    /\ procs[p].pc # "done"
    /\ \E r \in {CASE procs[p].op = "store_key" -> store_key_step(keyring, db, procs[p])
                   [] procs[p].op = "get_key" -> get_key_step(keyring, db, procs[p])
                   [] procs[p].op = "remove_key" -> remove_key_step(keyring, db, procs[p])} :
        /\ keyring' = r.keyring
        /\ db' = r.db
        /\ procs' = [procs EXCEPT ![p] = r.proc]
        /\ last' = [last EXCEPT !.op = procs[p].pc,
                       !.written = IF procs[p].pc = "set_password"
                                   THEN @ \cup {procs[p].api_key} ELSE @]
    /\ UNCHANGED <<sync, ledger, recorded, files, auditLog, clock, secure>>

\* a process dies between two statements of its call
Crash(p) ==
    /\ procs[p].pc \in {"add_key", "delete_password", "remove_key", "get_password"}
    /\ procs' = [procs EXCEPT ![p] = NoProc]
    /\ last' = [last EXCEPT !.op = "crash", !.crashed = TRUE]
    /\ UNCHANGED <<sync, keyring, db, ledger, recorded, files, auditLog, clock, secure>>

NextRaces ==
    \/ \E p \in Procs : Start(p)
    \/ \E p \in Procs : Step(p)
    \/ \E p \in Procs : Crash(p)

SpecRaces == InitRaces /\ [][NextRaces]_vars

---------------------------------------------------------------------------
(* Claims about concurrent calls *)

\* a value get_key may return: none, or one some store_key wrote for the pair
Tolerable(value) == value = None \/ value \in last.written

Finished(p, op) == procs[p].op = op /\ procs[p].pc = "done"

\* C19: however the statements of store_key and remove_key of two processes
\* on one pair interleave, and wherever a process dies between two of its
\* statements, no get_key and no remove_key raises, be it one of the
\* interleaved calls or a later one, and get_key returns no value or a value
\* some store_key wrote for the pair.
C19_RacesTolerated ==
    /\ \A p \in Procs : ~procs[p].raised
    /\ \A p \in Procs : Finished(p, "get_key") => Tolerable(procs[p].ret)
    /\ \A service \in RaceServices :
          /\ ~get_key(Enter(keyring, db), service, prod, "none").raised
          /\ Tolerable(get_key(Enter(keyring, db), service, prod, "none").ret)
          /\ ~remove_key(Enter(keyring, db), service, prod, "none").raised

\* a process died, the metadata row is there without its secret, one process
\* has ended a remove_key at the missing secret and the other a get_key
\* without a value
C19_Witness ==
    /\ last.crashed
    /\ DbHasKey(db, openai, prod) /\ ~HasSecret(keyring, openai, prod)
    /\ \E p, q \in Procs :
          /\ Finished(p, "remove_key")
          /\ Finished(q, "get_key") /\ procs[q].ret = None /\ procs[q].name # <<>>

---------------------------------------------------------------------------
(* The add-key command (cli.py) *)
(* answer: what the user answers to the prompts (action, confirm_replace,  *)
(* confirm_continue). f, the faults of one run: get, backup, store (the    *)
(* KeyStore calls, in Faults), backup_log, log (the audit event of the     *)
(* backup, of the new key, can be logged).                                 *)

Cancelled == "Operation cancelled"
Keeping   == "Keeping existing key"
Stored    == "stored securely."

\* ServiceEnvironmentSelector.find_service_with_fuzzy_matching for a name of
\* the registry in any letter case; the names given here are either that or
\* close to none
find_service_with_fuzzy_matching(service_input) == get_provider_by_name(service_input)

\* f"{service_name}_backup_{timestamp}"
backup_service_name(service_name, now) == service_name \o <<"_backup_">> \o strftime(now)

\* audit_logger = AuditLogger(); audit_logger.log_event(...)
audit(st, event_type, service, environment, sensitive_data, additional_data, ok) ==
    Try(AuditLogger(st, FreshKey, NoKeyFaults @@ [creatable |-> TRUE]), LAMBDA a :
        log_event_full(a, event_type, service, environment, sensitive_data,
                       additional_data, a.ret, ok))

\* the try block of add_key: the old value is stored under the alias and the
\* backup is logged
backup_existing_key(st, service_name, environment, existing_key, f) ==
    Try(store_key(st, backup_service_name(service_name, st.now), environment,
                  existing_key, f.backup),
        LAMBDA s :
            audit(s, "key_backup", service_name, environment, NoData,
                  [action |-> "backup", reason |-> "key_replacement",
                   backup_service |-> backup_service_name(service_name, st.now)],
                  f.backup_log))

\* add_key from "Store the new key" on
store_new_key(st, service_name, environment, api_key, replaced_existing, f) ==
    Try(store_key(st, service_name, environment, api_key, f.store), LAMBDA s :
        Try(audit(s, "add_key", service_name, environment, <<api_key>>,
                  [action |-> "add", replaced_existing |-> replaced_existing], f.log),
            LAMBDA l : Return(l, Stored)))

\* the prompts end the command without a replacement
declined(answer) ==
    \/ answer.action \in {"cancel", "keep"}
    \/ answer.action = "view" /\ ~answer.confirm_replace

\* the add-key command; returns what it prints last. The backup of the old
\* value belongs to the branch taken without --force
add_key(st, service, environment, api_key, force, answer, f) ==
    IF ~HasProvider(service) THEN Return(st, "Error")
    ELSE Try(get_key(st, find_service_with_fuzzy_matching(service), environment, f.get),
             LAMBDA g :
        IF g.ret # None /\ ~force
        THEN IF declined(answer)
             THEN Return(g, IF answer.action = "keep" THEN Keeping ELSE Cancelled)
             ELSE Then(backup_existing_key(g, find_service_with_fuzzy_matching(service),
                                           environment, g.ret, f),
                       LAMBDA b :
                  IF b.raised /\ ~answer.confirm_continue THEN Return(b, Cancelled)
                  ELSE store_new_key([b EXCEPT !.raised = FALSE],
                                     find_service_with_fuzzy_matching(service),
                                     environment, api_key, TRUE, f))
        ELSE store_new_key(g, find_service_with_fuzzy_matching(service), environment,
                           api_key, g.ret # None, f))

---------------------------------------------------------------------------
(* Keys being added and replaced *)

MaxAdds == 2

Answers ==
    { [action |-> "cancel", confirm_replace |-> FALSE, confirm_continue |-> FALSE],
      [action |-> "keep", confirm_replace |-> FALSE, confirm_continue |-> FALSE],
      [action |-> "replace", confirm_replace |-> FALSE, confirm_continue |-> FALSE],
      [action |-> "replace", confirm_replace |-> FALSE, confirm_continue |-> TRUE],
      [action |-> "view", confirm_replace |-> FALSE, confirm_continue |-> FALSE],
      [action |-> "view", confirm_replace |-> TRUE, confirm_continue |-> FALSE],
      [action |-> "view", confirm_replace |-> TRUE, confirm_continue |-> TRUE] }

NoAddFaults ==
    [get |-> "none", backup |-> "none", backup_log |-> TRUE, store |-> "none", log |-> TRUE]

\* a run without fault, and the runs with one
AddFaults ==
    {NoAddFaults, [NoAddFaults EXCEPT !.get = "backend"],
     [NoAddFaults EXCEPT !.backup_log = FALSE], [NoAddFaults EXCEPT !.log = FALSE]}
    \cup {[NoAddFaults EXCEPT !.backup = x] : x \in Faults}
    \cup {[NoAddFaults EXCEPT !.store = x] : x \in Faults}

\* the OS store holds value under the alias of the pair made at time now
BackedUp(kr, service_name, environment, now, value) ==
    keyring_get_password(kr,
        get_keyring_service_name(Lower(backup_service_name(service_name, now)), environment),
        Lower(environment)) = value

AddKey ==
    /\ clock < MaxAdds
    /\ \E service \in {openai, acme}, api_key \in ApiKeys, force \in BOOLEAN,
          answer \in Answers, f \in AddFaults :
        \E r \in {add_key(Enter(keyring, db), service, prod, api_key, force, answer, f)} :
            /\ keyring' = r.keyring
            /\ db' = r.db
            /\ files' = r.files
            /\ auditLog' = r.auditLog
            /\ clock' = clock + 1
            /\ last' = [op |-> "add_key", raised |-> r.raised, exc |-> r.exc, ret |-> r.ret,
                        force |-> force, answer |-> answer, f |-> f,
                        api_key |-> api_key,
                        existing_key |-> IF HasProvider(service) /\ f.get = "none"
                                         THEN GetNow(service, prod) ELSE None,
                        wrote |-> /\ \E i \in DOMAIN r.stored :
                                        r.stored[i] = <<get_provider_by_name(service),
                                                        prod, api_key>>
                                  /\ f.store \in {"none", "db"},
                        backed_up |-> /\ HasProvider(service)
                                      /\ BackedUp(r.keyring, get_provider_by_name(service),
                                                  prod, clock, GetNow(service, prod)),
                        unchanged |-> /\ r.keyring = keyring /\ r.db = db
                                      /\ r.auditLog = auditLog]
            /\ UNCHANGED <<sync, procs, secure, ledger, recorded>>

NextAddKey == AddKey

SpecAddKey == Init /\ [][NextAddKey]_vars

---------------------------------------------------------------------------
(* Claims about add-key *)

Overwrote == last.op = "add_key" /\ last.existing_key # None /\ last.wrote

BackupFailed == last.f.backup # "none" \/ ~last.f.backup_log

\* C20: whenever add-key overwrites an existing value, through replace,
\* through view and the confirmed replace, or through --force, the old value
\* has been stored under the alias "{service}_backup_{timestamp}" before,
\* unless the backup failed and the user confirmed to go on without it; keep
\* and cancel leave both stores and the audit log unchanged.
C20_OverwriteIsBackedUp ==
    /\ Overwrote => last.backed_up \/ (BackupFailed /\ last.answer.confirm_continue)
    /\ (/\ last.op = "add_key" /\ last.existing_key # None /\ ~last.force
        /\ last.answer.action \in {"keep", "cancel"})
           => last.unchanged

---------------------------------------------------------------------------
(* rollback_rotation's search for an archive (rotation.py)                 *)
(*                                                                         *)
(* The archives of _create_pre_rotation_backup are entries of files whose  *)
(* path starts with the backup directory.                                  *)

\* str.startswith
startswith(s, prefix) ==
    /\ Len(prefix) <= Len(s)
    /\ SubSeq(s, 1, Len(prefix)) = prefix

\* the characters of file names, in code point order
Ascii == <<".">> \o Digits \o UpperChars \o <<"_">> \o LowerChars

\* ord()
ord(c) == CHOOSE i \in DOMAIN Ascii : Ascii[i] = c

\* str.__lt__: the comparison list.sort uses
RECURSIVE str_lt(_, _)
str_lt(a, b) ==
    IF b = <<>> THEN FALSE
    ELSE IF a = <<>> THEN TRUE
    ELSE IF a[1] # b[1] THEN ord(a[1]) < ord(b[1])
    ELSE str_lt(Tail(a), Tail(b))

\* os.listdir(backup_dir)
listdir(fs, dir) ==
    {SubSeq(path, Len(dir) + 1, Len(path)) :
        path \in {q \in DOMAIN fs : startswith(q, dir)}}

\* backups.sort(reverse=True); backups[0]
first_of_reverse_sorted(backups) ==
    CHOOSE f \in backups : \A g \in backups : g = f \/ str_lt(g, f)

\* no path: None where a path is expected
NoPath == <<>>

\* _find_recent_backup
find_recent_backup(fs, service, environment) ==
    LET pattern == <<"pre_rotation_">> \o service \o <<"_">> \o environment \o <<"_">>
        backups == {f \in listdir(fs, backup_dir) : startswith(f, pattern)}
    IN  IF backups = {} THEN NoPath
        ELSE backup_dir \o first_of_reverse_sorted(backups)

(* SpecArchives: pre-rotation archives are created for several pairs as   *)
(* time passes, and searched.                                              *)
MaxArchives == 3

\* an environment whose name goes on after another one's and an underscore
prod_eu == prod \o <<"_", "e", "u">>

ArchiveServices == {openai, acme}
ArchiveEnvironments == {prod, prod_eu}

InitArchives ==
    /\ keyring  = Empty
    /\ db       = Empty
    /\ ledger   = Empty
    /\ recorded = Empty
    /\ files    = Empty
    /\ auditLog = <<>>
    /\ clock    = 0
    /\ procs    = None
    /\ sync     = None
    /\ secure   = None
    /\ last     = [op |-> "none", created |-> <<>>]

\* history variable: the archive, whom it was created for, and when
Creation(path, service, environment, now) ==
    [path |-> path, service |-> service, environment |-> environment, now |-> now]

CreatePreRotationBackup ==
    /\ clock < MaxArchives
    /\ \E service \in ArchiveServices, environment \in ArchiveEnvironments,
          fault \in {"none", "collect"} :
      \E r \in {create_pre_rotation_backup(Enter(keyring, db), service, environment,
                                           None, fault)} :
        /\ files' = r.files
        /\ auditLog' = r.auditLog
        /\ clock' = clock + 1
        /\ last' = [op |-> "create_pre_rotation_backup",
                    created |-> IF r.raised THEN last.created
                                ELSE Append(last.created,
                                            Creation(r.ret, service, environment, clock))]
        /\ UNCHANGED <<sync, procs, secure, keyring, db, ledger, recorded>>

FindRecentBackup ==
    \E service \in ArchiveServices, environment \in ArchiveEnvironments :
        /\ last' = [op |-> "find_recent_backup", created |-> last.created,
                    service |-> service, environment |-> environment,
                    ret |-> find_recent_backup(files, service, environment)]
        /\ UNCHANGED <<sync, procs, secure, keyring, db, ledger, recorded, files, auditLog, clock>>

NextArchives == CreatePreRotationBackup \/ FindRecentBackup

SpecArchives == InitArchives /\ [][NextArchives]_vars

---------------------------------------------------------------------------
(* Claims about the archive search *)

\* the creations of archives that are on disk, for the pair
CreatedFor(service, environment) ==
    {i \in DOMAIN last.created :
        /\ last.created[i].service = service
        /\ last.created[i].environment = environment
        /\ last.created[i].path \in DOMAIN files}

\* C21: _find_recent_backup(service, environment) returns the archive with
\* the latest timestamp among the pre-rotation archives created for exactly
\* that service and environment, None when there is none, and never an
\* archive created for another service or environment.
C21_FindsOwnLatestArchive ==
    last.op = "find_recent_backup" =>
        LET own == CreatedFor(last.service, last.environment)
        IN  IF own = {} THEN last.ret = NoPath
            ELSE \E i \in own :
                    /\ last.ret = last.created[i].path
                    /\ \A j \in own : last.created[j].now <= last.created[i].now

---------------------------------------------------------------------------
(* SyncDatabase (sync/db.py)                                               *)
(*                                                                         *)
(* sync holds the tables of _initialize_schema that the operations use:    *)
(* devices and sync_metadata by primary key, sync_state as its rows in     *)
(* insertion order. foreign_keys says whether the connection enforces     *)
(* FOREIGN KEY clauses (SQLite's PRAGMA foreign_keys).                     *)

\* SyncStatus
PENDING  == "pending"
SYNCED   == "synced"
CONFLICT == "conflict"

SyncStatus == {PENDING, SYNCED, CONFLICT}

\* _initialize_schema on a new database
initialize_schema(foreign_keys) ==
    [devices |-> Empty, sync_metadata |-> Empty, sync_state |-> <<>>,
     foreign_keys |-> foreign_keys]

\* Device(name=.., id=..), the other fields at their defaults
Device(id, name) == [id |-> id, name |-> name, status |-> "active"]

\* SyncMetadata
SyncMetadata(key_id, service, environment, modified_by, sync_status) ==
    [key_id |-> key_id, service |-> service, environment |-> environment,
     version |-> 1, modified_by |-> modified_by, sync_status |-> sync_status]

\* the outcome of an operation: the tables, and what it raised or returned
SyncResult(s, raised, ret) == [sync |-> s, raised |-> raised, ret |-> ret]

\* sqlite3.IntegrityError, a sqlite3.Error: logged and raised again
IntegrityError(s) == SyncResult(s, TRUE, "IntegrityError")

\* add_device: INSERT INTO devices, id PRIMARY KEY, UNIQUE(name)
add_device(s, device) ==
    IF \/ device.id \in DOMAIN s.devices
       \/ \E id \in DOMAIN s.devices : s.devices[id].name = device.name
    THEN IntegrityError(s)
    ELSE SyncResult([s EXCEPT !.devices =
                        [id \in DOMAIN s.devices \cup {device.id} |->
                            IF id = device.id THEN device ELSE s.devices[id]]],
                    FALSE, None)

\* add_sync_metadata: INSERT INTO sync_metadata, key_id PRIMARY KEY,
\* FOREIGN KEY(modified_by) REFERENCES devices(id)
add_sync_metadata(s, metadata) ==
    IF \/ metadata.key_id \in DOMAIN s.sync_metadata
       \/ s.foreign_keys /\ metadata.modified_by \notin DOMAIN s.devices
    THEN IntegrityError(s)
    ELSE SyncResult([s EXCEPT !.sync_metadata =
                        [k \in DOMAIN s.sync_metadata \cup {metadata.key_id} |->
                            IF k = metadata.key_id THEN metadata
                            ELSE s.sync_metadata[k]]],
                    FALSE, None)

\* get_pending_changes: SELECT m.* FROM sync_metadata m
\* JOIN sync_state s ON s.device_id = ? WHERE m.sync_status = 'pending';
\* one row for every pair of a pending m and a sync_state row of the device
get_pending_changes(s, device_id) ==
    LET joined == {<<k, i>> \in (DOMAIN s.sync_metadata) \X (DOMAIN s.sync_state) :
                      /\ s.sync_state[i].device_id = device_id
                      /\ s.sync_metadata[k].sync_status = PENDING}
        rows == SetToSeq(joined)
    IN  SyncResult(s, FALSE, [n \in DOMAIN rows |-> s.sync_metadata[rows[n][1]]])

\* update_sync_status: UPDATE sync_metadata SET sync_status = ? WHERE key_id = ?
update_sync_status(s, key_id, status) ==
    SyncResult([s EXCEPT !.sync_metadata =
                   [k \in DOMAIN s.sync_metadata |->
                       IF k = key_id THEN [s.sync_metadata[k] EXCEPT !.sync_status = status]
                       ELSE s.sync_metadata[k]]],
               FALSE, None)

(* SpecSync *)
DeviceIds   == {"d1", "d2"}
DeviceNames == {"laptop", "server"}
KeyIds      == {"k1", "k2"}

InitSync ==
    /\ keyring  = Empty
    /\ db       = Empty
    /\ ledger   = Empty
    /\ recorded = Empty
    /\ files    = Empty
    /\ auditLog = <<>>
    /\ clock    = 0
    /\ procs    = None
    /\ secure   = None
    /\ \E foreign_keys \in BOOLEAN : sync = initialize_schema(foreign_keys)
    /\ last     = [op |-> "none"]

SyncCall(op, args, r) ==
    /\ sync' = r.sync
    /\ last' = [op |-> op, args |-> args, raised |-> r.raised, ret |-> r.ret]
    /\ UNCHANGED <<keyring, db, ledger, recorded, files, auditLog, clock, procs, secure>>

AddDevice ==
    \E id \in DeviceIds, name \in DeviceNames :
        SyncCall("add_device", <<id>>, add_device(sync, Device(id, name)))

AddSyncMetadata ==
    \E key_id \in KeyIds, modified_by \in DeviceIds, sync_status \in SyncStatus :
        SyncCall("add_sync_metadata", <<key_id>>,
                 add_sync_metadata(sync, SyncMetadata(key_id, openai, prod,
                                                      modified_by, sync_status)))

GetPendingChanges ==
    \E device_id \in DeviceIds :
        SyncCall("get_pending_changes", <<device_id>>,
                 get_pending_changes(sync, device_id))

UpdateSyncStatus ==
    \E key_id \in KeyIds, status \in SyncStatus :
        SyncCall("update_sync_status", <<key_id, status>>,
                 update_sync_status(sync, key_id, status))

NextSync == AddDevice \/ AddSyncMetadata \/ GetPendingChanges \/ UpdateSyncStatus

SpecSync == InitSync /\ [][NextSync]_vars

---------------------------------------------------------------------------
(* Claims about the sync store *)

\* how often the row of key_id is in a result
Occurrences(rows, key_id) ==
    Cardinality({n \in DOMAIN rows : rows[n].key_id = key_id})

\* C22: after add_device(d) and add_sync_metadata(m) with m pending,
\* get_pending_changes(d.id) returns every sync_metadata row that is still
\* pending, each exactly once (and no row that is not pending).
C22_PendingChangesListed ==
    (/\ last.op = "get_pending_changes"
     /\ last.args[1] \in DOMAIN sync.devices)
        => /\ ~last.raised
           /\ \A k \in DOMAIN sync.sync_metadata :
                Occurrences(last.ret, k) =
                    IF sync.sync_metadata[k].sync_status = PENDING THEN 1 ELSE 0

---------------------------------------------------------------------------
(* SpecNamespaces: user keys and system keys in the one OS store           *)

\* a user service, e.g. a provider registered under this name
system == <<"s","y","s","t","e","m">>

UserServices     == {openai, system}
UserEnvironments == {prod, AuditEncryption}
UserPairs        == UserServices \X UserEnvironments
SystemKeyNames   == {AuditEncryption}

\* get_key for every user pair
UserValues(kr, d) ==
    [pair \in UserPairs |-> get_key(Enter(kr, d), pair[1], pair[2], "none").ret]

\* get_system_key for every system key name
SystemValues(kr, d) ==
    [name \in SystemKeyNames |-> get_system_key(Enter(kr, d), name, "none").ret]

NamespaceCall(op, r) ==
    /\ keyring' = r.keyring
    /\ db'      = r.db
    /\ last'    = [op |-> op, raised |-> r.raised,
                   db_kept     |-> r.db = db,
                   user_kept   |-> UserValues(r.keyring, r.db) = UserValues(keyring, db),
                   system_kept |-> SystemValues(r.keyring, r.db)
                                      = SystemValues(keyring, db)]
    /\ UNCHANGED <<sync, procs, secure, ledger, recorded, files, auditLog, clock>>

UserStoreKey ==
    \E pair \in UserPairs, api_key \in {"k1"}, fault \in {"none", "db"} :
        NamespaceCall("store_key",
                      store_key(Enter(keyring, db), pair[1], pair[2], api_key, fault))

UserRemoveKey ==
    \E pair \in UserPairs, fault \in {"none", "db"} :
        NamespaceCall("remove_key",
                      remove_key(Enter(keyring, db), pair[1], pair[2], fault))

StoreSystemKey ==
    \E name \in SystemKeyNames, key_value \in {FreshKey}, fault \in {"none", "keyring"} :
        NamespaceCall("store_system_key",
                      store_system_key(Enter(keyring, db), name, key_value, fault))

NextNamespaces == UserStoreKey \/ UserRemoveKey \/ StoreSystemKey

SpecNamespaces == Init /\ [][NextNamespaces]_vars

---------------------------------------------------------------------------
(* Claims about the two namespaces *)

\* C23: no store_key or remove_key call on a user (service, environment)
\* pair changes the value get_system_key returns for any system key name,
\* and store_system_key changes neither the metadata rows nor the value
\* get_key returns for any user pair.
C23_NamespacesIsolated ==
    /\ last.op \in {"store_key", "remove_key"} => last.system_kept
    /\ last.op = "store_system_key" => last.db_kept /\ last.user_kept

---------------------------------------------------------------------------
(* SpecCompleted: store_key and remove_key calls that all run to           *)
(* completion, none raising, from empty stores                             *)

CompletedServices == Services \cup {Anthropic}

StoreKeyCompleted ==
    \E service \in CompletedServices, environment \in Environments, api_key \in ApiKeys :
        Commit("store_key", service, environment, api_key, "none",
               store_key(Enter(keyring, db), service, environment, api_key, "none"))

RemoveKeyCompleted ==
    \E service \in CompletedServices, environment \in Environments :
        Commit("remove_key", service, environment, None, "none",
               remove_key(Enter(keyring, db), service, environment, "none"))

NextCompleted == StoreKeyCompleted \/ RemoveKeyCompleted

SpecCompleted == Init /\ [][NextCompleted]_vars

---------------------------------------------------------------------------
(* Claims about completed calls *)

\* where store_key puts the secret of the pair with this metadata row
SecretOf(pk) == <<KeymasterPrefix \o pk[1], pk[2]>>

\* C24: from empty stores, after store_key and remove_key calls that all
\* completed without raising, under any spelling of service and
\* environment, a metadata row exists for a pair if and only if the OS store
\* holds a secret under ("keymaster-" + lowercase(service),
\* lowercase(environment)).
C24_StoresAgree ==
    /\ ~last.op = "init" => ~last.raised
    /\ \A service \in CompletedServices, environment \in Environments :
          DbHasKey(db, service, environment)
              <=> <<KeymasterPrefix \o Lower(service), Lower(environment)>>
                      \in DOMAIN keyring
    /\ DOMAIN keyring = {SecretOf(pk) : pk \in DOMAIN db}

\* a pair stored under one spelling has been removed under another, while
\* another pair is still stored
C24_Witness ==
    /\ last.op = "remove_key"
    /\ last.service = openai /\ last.environment = PROD
    /\ last.pre_metadata /\ last.pre_secret
    /\ ~DbHasKey(db, OpenAI, prod) /\ ~HasSecret(keyring, OpenAI, prod)
    /\ DbHasKey(db, acme, prod) /\ HasSecret(keyring, acme, prod)

---------------------------------------------------------------------------
(* More claims about the rotator, checked under SpecRotation *)

\* the ledger holds a success entry written by the last call
SuccessRecorded ==
    \E i \in DOMAIN HistoryNow :
        HistoryNow[i].success /\ HistoryNow[i].timestamp = clock - 1

\* C25: if rotate_key ends by raising RotationError, get_key(service,
\* environment) returns what it returned before the call (the new key has
\* not been stored) and the ledger holds no success entry for that call.
C25_RotationAllOrNothing ==
    (Rotated /\ last.raised /\ last.exc.type = "RotationError") =>
        /\ GetNow(last.service, last.environment) = last.pre_key
        /\ ~SuccessRecorded

\* the old value of the last call is in the OS store under the alias
\* "{service}_backup_{timestamp}"
OldKeyInKeystore ==
    BackedUp(keyring, last.service, last.environment, clock - 1, last.pre_key)

\* C26: a successful rotate_key reports old_key_backed_up = true only if
\* the old value was stored under the timestamped alias; when that alias
\* store fails, the rotation still succeeds and old_key_backed_up is false.
C26_BackedUpMeansStored ==
    /\ (Rotated /\ ~last.raised /\ last.ret.old_key_backed_up) => OldKeyInKeystore
    /\ (Rotated /\ last.step = "alias") =>
          ~last.raised /\ ~last.ret.old_key_backed_up

---------------------------------------------------------------------------
(* The ledger's readers (rotation.py), and a claim checked under SpecLedger *)

\* [r for r in rotations if r["success"]]
successful_rotations(rotations) == SelectSeq(rotations, LAMBDA r : r.success)

\* KeyRotationHistory.get_last_rotation: the entry in a list of one, the
\* empty list for None
get_last_rotation(history, service, environment) ==
    LET successful == successful_rotations(get_rotation_history(history, service, environment))
    IN  IF successful = <<>> THEN <<>> ELSE <<successful[Len(successful)]>>

\* the keys get_rotation_stats counts in keys_never_rotated
keys_never_rotated(history) ==
    {key \in DOMAIN history : successful_rotations(history[key].rotations) = <<>>}

\* sum(): the sum of a list of numbers
RECURSIVE sum(_)
sum(numbers) == IF numbers = <<>> THEN 0 ELSE Head(numbers) + sum(Tail(numbers))

\* KeyRotationHistory.get_rotation_stats: its counters
get_rotation_stats(history) ==
    LET keys == SetToSeq(DOMAIN history)
        rotations == [i \in DOMAIN keys |-> Len(history[keys[i]].rotations)]
        successful == [i \in DOMAIN keys |->
                          Len(successful_rotations(history[keys[i]].rotations))]
    IN  [total_keys_tracked   |-> Len(keys),
         total_rotations      |-> sum(rotations),
         successful_rotations |-> sum(successful),
         failed_rotations     |-> sum(rotations) - sum(successful),
         keys_never_rotated   |-> Cardinality(keys_never_rotated(history))]

\* a success has been recorded for the key at some time
EverSucceeded(key) ==
    key \in DOMAIN recorded /\ \E i \in DOMAIN recorded[key] : recorded[key][i].success

\* C27: after any record_rotation calls, for every (service, environment),
\* get_last_rotation returns an entry if and only if last_successful_rotation
\* is recorded for that key, and then the entry's timestamp is
\* last_successful_rotation; and get_rotation_stats counts in
\* keys_never_rotated only keys for which no success was ever recorded.
C27_LedgerViewsAgree ==
    /\ \A p \in LedgerPairs :
          LET key  == HistoryKey(p[1], p[2])
              got  == get_last_rotation(ledger, p[1], p[2])
              has  == /\ key \in DOMAIN ledger
                      /\ "last_successful_rotation" \in DOMAIN ledger[key]
          IN  /\ got # <<>> <=> has
              /\ got # <<>> => got[1].timestamp = ledger[key].last_successful_rotation
    /\ get_rotation_stats(ledger).keys_never_rotated
          = Cardinality({key \in DOMAIN ledger : ~EverSucceeded(key)})

---------------------------------------------------------------------------
(* SpecLedgerRaces: record_rotation of two CLI processes, one file access  *)
(* at a time. A call reads the history file, changes what it has read, and *)
(* writes the whole history back.                                          *)

\* a record_rotation call in progress: where it is, its arguments, and the
\* history it has read
Recording(pc, service, environment, success, history) ==
    [pc |-> pc, service |-> service, environment |-> environment,
     success |-> success, history |-> history]

NotRecording == Recording("done", openai, prod, FALSE, Empty)

\* history = self._read_history()
read_history_step(file, self) == [self EXCEPT !.pc = "write_history", !.history = file]

\* the entry is appended to what was read; self._write_history(history)
write_history_step(self, now) ==
    record_rotation(self.history, self.service, self.environment, self.success,
                    IF self.success THEN BackupPath ELSE None,
                    IF self.success THEN None ELSE ErrorMessage, now)

\* the most record_rotation calls of a run
MaxRecordings == 3

InitLedgerRaces ==
    /\ keyring  = Empty
    /\ db       = Empty
    /\ ledger   = Empty
    /\ recorded = Empty
    /\ files    = Empty
    /\ auditLog = <<>>
    /\ clock    = 0
    /\ secure   = None
    /\ sync     = None
    /\ procs    = [p \in Procs |-> NotRecording]
    /\ last     = [op |-> "none", calls |-> 0]

\* a process enters record_rotation
StartRecording(p) ==
    /\ procs[p].pc = "done"
    /\ last.calls < MaxRecordings
    /\ \E environment \in {prod, PROD}, success \in BOOLEAN :
        procs' = [procs EXCEPT ![p] =
                     Recording("read_history", openai, environment, success, Empty)]
    /\ last' = [last EXCEPT !.op = "start", !.calls = @ + 1]
    /\ UNCHANGED <<sync, keyring, db, ledger, recorded, files, auditLog, clock, secure>>

ReadHistory(p) ==
    /\ procs[p].pc = "read_history"
    /\ procs' = [procs EXCEPT ![p] = read_history_step(ledger, procs[p])]
    /\ last' = [last EXCEPT !.op = "read_history"]
    /\ UNCHANGED <<sync, keyring, db, ledger, recorded, files, auditLog, clock, secure>>

WriteHistory(p) ==
    /\ procs[p].pc = "write_history"
    /\ ledger' = write_history_step(procs[p], clock)
    /\ recorded' = Recorded(recorded, HistoryKey(procs[p].service, procs[p].environment),
                       rotation_record(clock, procs[p].success,
                                       IF procs[p].success THEN BackupPath ELSE None,
                                       IF procs[p].success THEN None ELSE ErrorMessage))
    /\ procs' = [procs EXCEPT ![p] = NotRecording]
    /\ clock' = clock + 1
    /\ last' = [last EXCEPT !.op = "write_history"]
    /\ UNCHANGED <<sync, keyring, db, files, auditLog, secure>>

NextLedgerRaces ==
    \/ \E p \in Procs : StartRecording(p)
    \/ \E p \in Procs : ReadHistory(p)
    \/ \E p \in Procs : WriteHistory(p)

SpecLedgerRaces == InitLedgerRaces /\ [][NextLedgerRaces]_vars

---------------------------------------------------------------------------
(* Claims about concurrent record_rotation calls *)

\* the entries of a list
Entries(rotations) == {rotations[i] : i \in DOMAIN rotations}

\* C28: when two processes run record_rotation, for one key or for two,
\* with their read-history and write-history steps interleaved in any
\* order, the ledger afterwards contains the entries of both.
C28_NoAttemptLost ==
    (\A p \in Procs : procs[p].pc = "done") =>
        \A key \in DOMAIN recorded :
            /\ key \in DOMAIN ledger
            /\ Entries(recorded[key]) \subseteq Entries(ledger[key].rotations)

---------------------------------------------------------------------------
(* SpecAuditRaces: the first AuditLogger of two CLI processes, one OS      *)
(* store access at a time. The settings hold no legacy key. A process      *)
(* constructs its logger (reads the system key and, finding none, stores   *)
(* one it generates), logs an event with sensitive data, and ends.         *)

\* a CLI process: where it is, and the key of its logger's Fernet
Logging(pc, fernet) == [pc |-> pc, fernet |-> fernet]

NotLogging == Logging("done", None)

\* Fernet.generate_key() in process p: no two calls give the same key
generate_key(p) == IF p = 1 THEN "fk1" ELSE "fk2"

\* _get_encryption_key up to the stored key it returns, or to the key it
\* generates when KeyStore.get_system_key returns None
get_system_key_step(st, p) ==
    LET key_str == get_system_key(st, AuditEncryption, "none").ret
    IN  IF key_str # None THEN Logging("log_event", key_str)
        ELSE Logging("store_system_key", generate_key(p))

\* KeyStore.store_system_key("audit_encryption", new_key.decode()); return new_key
store_system_key_step(st, self) ==
    store_system_key(st, AuditEncryption, self.fernet, "none")

\* the most CLI invocations of a run
MaxLoggers == 3

InitAuditRaces ==
    /\ keyring  = Empty
    /\ db       = Empty
    /\ ledger   = Empty
    /\ recorded = Empty
    /\ files    = Empty
    /\ auditLog = <<>>
    /\ clock    = 0
    /\ secure   = None
    /\ sync     = None
    /\ procs    = [p \in Procs |-> NotLogging]
    /\ last     = [op |-> "none", calls |-> 0]

\* a CLI process starts and enters AuditLogger()
StartLogger(p) ==
    /\ procs[p].pc = "done"
    /\ last.calls < MaxLoggers
    /\ procs' = [procs EXCEPT ![p] = Logging("get_system_key", None)]
    /\ last' = [op |-> "start", calls |-> last.calls + 1]
    /\ UNCHANGED <<sync, keyring, db, ledger, recorded, files, auditLog, clock, secure>>

GetSystemKey(p) ==
    /\ procs[p].pc = "get_system_key"
    /\ procs' = [procs EXCEPT ![p] = get_system_key_step(Enter(keyring, db), p)]
    /\ last' = [last EXCEPT !.op = "get_system_key"]
    /\ UNCHANGED <<sync, keyring, db, ledger, recorded, files, auditLog, clock, secure>>

StoreFreshKey(p) ==
    /\ procs[p].pc = "store_system_key"
    /\ keyring' = store_system_key_step(Enter(keyring, db), procs[p]).keyring
    /\ procs' = [procs EXCEPT ![p].pc = "log_event"]
    /\ last' = [last EXCEPT !.op = "store_system_key"]
    /\ UNCHANGED <<sync, db, ledger, recorded, files, auditLog, clock, secure>>

LogSensitiveEvent(p) ==
    /\ procs[p].pc = "log_event"
    /\ auditLog' = log_event_sensitive(Enter(keyring, db), "add_key", openai, prod,
                                       SensitiveData, procs[p].fernet, TRUE).auditLog
    /\ procs' = [procs EXCEPT ![p] = NotLogging]
    /\ clock' = clock + 1
    /\ last' = [last EXCEPT !.op = "log_event"]
    /\ UNCHANGED <<sync, keyring, db, ledger, recorded, files, secure>>

NextAuditRaces ==
    \/ \E p \in Procs : StartLogger(p)
    \/ \E p \in Procs : GetSystemKey(p)
    \/ \E p \in Procs : StoreFreshKey(p)
    \/ \E p \in Procs : LogSensitiveEvent(p)

SpecAuditRaces == InitAuditRaces /\ [][NextAuditRaces]_vars

---------------------------------------------------------------------------
(* Claims about concurrent first loggers *)

\* the key of an AuditLogger constructed now
LaterLoggerKey ==
    AuditLogger(Enter(keyring, db), "fk3", NoKeyFaults @@ [creatable |-> TRUE]).ret

\* the encrypted_data tokens in the log
Tokens ==
    {json_loads(auditLog[i]).encrypted_data[1] :
        i \in {j \in DOMAIN auditLog :
                  json_loads(auditLog[j]).encrypted_data # NoData}}

\* C29: every encrypted_data token log_event has written can be decrypted by
\* every AuditLogger constructed afterwards, also when two processes
\* construct their first AuditLogger concurrently while no audit_encryption
\* key is stored, in any interleaving.
C29_TokensStayReadable ==
    \A token \in Tokens : fernet_decrypts(LaterLoggerKey, token)

---------------------------------------------------------------------------
(* SpecDryRun: a dry run of restore_backup and the restore that follows    *)
(* it, over key stores that a failed remove_key may have left with a       *)
(* metadata row and no secret                                              *)

\* the most events audit.log holds
MaxDryRunEvents == 3

\* no call of restore_backup raises
NoRestoreFaults(keys) ==
    [list |-> "none", keys |-> KeyFaultsAt(keys, 0, "none"), audit |-> TRUE]

DryRunStoreKey ==
    \E service \in {openai, acme}, api_key \in ApiKeys :
        Commit("store_key", service, prod, api_key, "none",
               store_key(Enter(keyring, db), service, prod, api_key, "none"))

\* remove_key, which may raise in db.remove_key after the secret is deleted
DryRunRemoveKey ==
    \E service \in {openai, acme}, fault \in {"none", "db"} :
        Commit("remove_key", service, prod, None, fault,
               remove_key(Enter(keyring, db), service, prod, fault))

DryRunCreateBackup ==
    /\ Len(auditLog) < MaxDryRunEvents
    /\ \E r \in {create_backup(Enter(keyring, db), BackupFile, "pw1", FALSE,
                               NoService, NoEnvironment, "none")} :
            /\ files' = r.files
            /\ auditLog' = r.auditLog
            /\ last' = [op |-> "create_backup"]
            /\ UNCHANGED <<sync, procs, secure, keyring, db, ledger, recorded, clock>>

\* restore_backup(path, password, dry_run=True)
DryRun ==
    /\ BackupFile \in DOMAIN files
    /\ \E r \in {restore_backup(Enter(keyring, db), BackupFile, "pw1", TRUE, FALSE,
                                NoRestoreFaults(ArchiveKeys(files, "pw1")))} :
            /\ last' = [op |-> "dry_run", raised |-> r.raised, ret |-> r.ret]
            /\ UNCHANGED <<sync, procs, secure, keyring, db, ledger, recorded, files,
                           auditLog, clock>>

\* restore_backup(path, password, overwrite_existing=False) right after the
\* dry run
RestoreAfterDryRun ==
    /\ last.op = "dry_run" /\ ~last.raised
    /\ Len(auditLog) < MaxDryRunEvents
    /\ \E keys \in {ArchiveKeys(files, "pw1")} :
       \E r \in {restore_backup(Enter(keyring, db), BackupFile, "pw1", FALSE, FALSE,
                                NoRestoreFaults(keys))} :
            /\ keyring' = r.keyring
            /\ db' = r.db
            /\ auditLog' = r.auditLog
            /\ last' = [op |-> "restore", raised |-> r.raised, ret |-> r.ret,
                        analysis |-> last.ret,
                        stored |-> {<<r.stored[i][1], r.stored[i][2]>> :
                                       i \in DOMAIN r.stored},
                        archived |-> {<<keys[i].service, keys[i].environment>> :
                                         i \in DOMAIN keys}]
            /\ UNCHANGED <<sync, procs, secure, ledger, recorded, files, clock>>

NextDryRun ==
    \/ DryRunStoreKey \/ DryRunRemoveKey \/ DryRunCreateBackup
    \/ DryRun \/ RestoreAfterDryRun

SpecDryRun == Init /\ [][NextDryRun]_vars

---------------------------------------------------------------------------
(* Claims about the dry run *)

\* C30: for every archive and every state of the two stores, a metadata row
\* without a secret included, the pairs in new_keys_list of the dry run are
\* exactly the pairs the restore with overwrite_existing=False that follows
\* stores, and the pairs in conflicting_keys are exactly the pairs it skips.
C30_DryRunPredictsRestore ==
    (last.op = "restore" /\ ~last.raised) =>
        /\ last.stored = last.analysis.new_keys_list
        /\ last.archived \ last.stored = last.analysis.conflicting_keys
        /\ last.ret.skipped_keys = Cardinality(last.analysis.conflicting_keys)

===========================================================================
